---- MODULE Spec2Model ----
(***************************************************************************)
(* A model of the RSVP playback engine (src/src/rsvp/engine.ts) and of the *)
(* position clamping done by the application when it restores a saved      *)
(* position (App.clampPosition).                                           *)
(*                                                                         *)
(* Indices are zero-based as in the source; TLA+ sequences are one-based,  *)
(* so the element at JavaScript index i of a sequence s is s[i + 1].       *)
(***************************************************************************)
EXTENDS Integers, Sequences, FiniteSets, TLC

VARIABLES
    status,      \* RSVPState.status
    position,    \* RSVPState.position
    wpm,         \* RSVPState.wpm
    book,        \* RSVPState.book (loaded = FALSE models null)
    viewMode,    \* RSVPState.viewMode
    timerId,     \* RSVPEngine.timerId (NoTimer models null)
    pending,     \* the timers armed with window.setTimeout, neither fired nor cleared
    events,      \* the notifications dispatched by the last call, in order
    threw,       \* the last call ended by raising a TypeError
    lastOp,      \* the last call made on the engine (or the timer callback)
    pauseRun,    \* the current run of consecutive pause() calls
    clampBook,   \* argument of App.clampPosition
    clampPos,    \* argument of App.clampPosition
    clampOut,    \* what App.clampPosition did with them
    listeners,   \* wordListeners, statusListeners, viewModeListeners, by channel
    dispatch,    \* the forEach over one of them that is running or has returned
    wordRanks,   \* wordlist.ts: the module's wordRanks
    delayWord,   \* argument of calculateTotalDelay
    delayWpm,    \* argument of calculateTotalDelay
    delaySettings, \* argument of calculateTotalDelay
    delayOut,    \* what calculateTotalDelay returned for them
    orpWord,     \* argument of calculateORP
    orpOut,      \* what calculateORP returned for it
    timingSettingsGetter, \* whether the engine has been given a settings getter
    appSettings, \* the timing settings the application has stored
    armed,       \* per pending timer: its delay and what it was computed from
    rows,        \* the server's books table
    uploads,     \* per upload request: how far POST /api/books has got
    lastSaved,   \* per hash: what DB.updatePosition stored last, if anything
    libraryBooks,    \* Library.books, the list fetched last
    cardsShown,      \* whether the library shows the cards of that list
    currentBookHash, \* App.currentBookHash (NoHash for null)
    putRequest,  \* the PUT of savePosition on its way, if any
    getRequest,  \* whether a GET of the list is on its way
    subscriber   \* a callback given to onStatusChange or onWordChange that
                 \* calls back into the engine

engineVars == <<status, position, wpm, book, viewMode, timerId, pending, events, threw>>
clampVars == <<clampBook, clampPos, clampOut>>
listenerVars == <<listeners, dispatch>>
timingVars == <<wordRanks, delayWord, delayWpm, delaySettings, delayOut>>
vars == <<status, position, wpm, book, viewMode, timerId, pending, events, threw,
          lastOp, pauseRun, clampBook, clampPos, clampOut, listeners, dispatch,
          wordRanks, delayWord, delayWpm, delaySettings, delayOut,
          orpWord, orpOut, timingSettingsGetter, appSettings, armed,
          rows, uploads, lastSaved, libraryBooks, cardsShown, currentBookHash,
          putRequest, getRequest, subscriber>>
orpVars == <<orpWord, orpOut>>
scheduleVars == <<timingSettingsGetter, appSettings, armed>>
serverVars == <<rows, uploads, lastSaved>>
appVars == <<libraryBooks, cardsShown, currentBookHash, putRequest, getRequest>>
laterVars == <<orpVars, scheduleVars, serverVars, appVars, subscriber>>

----------------------------------------------------------------------------
(* Bounds of the model *)

MaxChapters == 2
MaxTimers == 3
MaxPauseRun == 2
MaxCallbacks == 2
MaxInvocations == 3
MaxWordLength == 3
MaxUploads == 2

(* Program constants *)

DEFAULT_WPM == 300
MIN_WPM == 100
MAX_WPM == 1000
WPM_STEP == 25

Max(a, b) == IF a >= b THEN a ELSE b
Min(a, b) == IF a <= b THEN a ELSE b

SeqsUpTo(S, n) == UNION {[1..k -> S] : k \in 0..n}

----------------------------------------------------------------------------
(* Books.  A paragraph is the sequence of its words' texts; a chapter has  *)
(* a title and paragraphs.  The chapters range over shapes that include a  *)
(* chapter without paragraphs (E), paragraphs without words at the start   *)
(* and at the end of a chapter (M), and a chapter all of whose paragraphs  *)
(* have words (D).                                                         *)

Chapters ==
    { [title |-> "E", paragraphs |-> <<>>],
      [title |-> "M", paragraphs |-> << <<>>, <<"c,">>, <<>> >>],
      [title |-> "D", paragraphs |-> << <<"e">>, <<"f", "g.">> >>] }

Books == {[loaded |-> TRUE, chapters |-> cs] : cs \in SeqsUpTo(Chapters, MaxChapters)}

NoBook == [loaded |-> FALSE, chapters |-> <<>>]

Pos(c, p, w) == [chapterIndex |-> c, paragraphIndex |-> p, wordIndex |-> w]

ZeroPos == Pos(0, 0, 0)

(* Arguments of goToChapter and setPosition: every index from -1 to the   *)
(* largest count a book of the model has at that level.                   *)
ChapterArgs == -1 .. MaxChapters

ParagraphArgs == {-1, 0, 1, 2, 3}

WordArgs == {-1, 0, 1, 2}

PosArgs == {Pos(c, p, w) : c \in ChapterArgs, p \in ParagraphArgs, w \in WordArgs}

WpmValues == {DEFAULT_WPM, MAX_WPM}

ViewModes == {"rsvp", "paragraph"}

NoTimer == 0

(* JavaScript's a[i]: the element, or undefined when i is not an index of a. *)
Defined(a, i) == i >= 0 /\ i < Len(a)

HasChapter(b, c) == b.loaded /\ Defined(b.chapters, c)

HasParagraph(b, c, p) == HasChapter(b, c) /\ Defined(b.chapters[c + 1].paragraphs, p)

HasWord(b, c, p, w) == HasParagraph(b, c, p) /\ Defined(b.chapters[c + 1].paragraphs[p + 1], w)

NumChapters(b) == Len(b.chapters)

NumParagraphs(b, c) == Len(b.chapters[c + 1].paragraphs)

NumWords(b, c, p) == Len(b.chapters[c + 1].paragraphs[p + 1])

(* A position is valid for a book: every index designates an element. *)
IsValid(b, pos) == HasWord(b, pos.chapterIndex, pos.paragraphIndex, pos.wordIndex)

(* Every chapter has a paragraph and every paragraph a word. *)
WellFormed(b) ==
    /\ b.loaded
    /\ NumChapters(b) > 0
    /\ \A c \in 0 .. NumChapters(b) - 1 :
          /\ NumParagraphs(b, c) > 0
          /\ \A p \in 0 .. NumParagraphs(b, c) - 1 : NumWords(b, c, p) > 0

----------------------------------------------------------------------------
(* Notifications *)

NoInfo ==
    [present |-> FALSE, word |-> "", position |-> ZeroPos,
     totalWordsInParagraph |-> 0, totalParagraphsInChapter |-> 0,
     totalChapters |-> 0, chapterTitle |-> ""]

StatusEvent(st) == [type |-> "status", status |-> st, mode |-> "", info |-> NoInfo]

WordEvent(info) == [type |-> "word", status |-> "", mode |-> "", info |-> info]

ViewModeEvent(m) == [type |-> "viewMode", status |-> "", mode |-> m, info |-> NoInfo]

----------------------------------------------------------------------------
(* The engine's methods, as functions from the engine's state before the   *)
(* call to its state after it.  s is a record of the engine's fields.      *)

Eng ==
    [status |-> status, position |-> position, wpm |-> wpm, book |-> book,
     viewMode |-> viewMode, timerId |-> timerId, pending |-> pending,
     events |-> <<>>, threw |-> FALSE]

(* A variant that does not look whether the word exists. *)
getCurrentWordInfo_noWordCheck(s) ==
    LET c == s.position.chapterIndex
        p == s.position.paragraphIndex
        w == s.position.wordIndex
    IN  IF ~s.book.loaded THEN NoInfo
        ELSE IF ~HasChapter(s.book, c) THEN NoInfo
        ELSE IF ~HasParagraph(s.book, c, p) THEN NoInfo
        ELSE [present |-> TRUE,
              word |-> IF HasWord(s.book, c, p, w)
                       THEN s.book.chapters[c + 1].paragraphs[p + 1][w + 1]
                       ELSE "",
              position |-> s.position,
              totalWordsInParagraph |-> NumWords(s.book, c, p),
              totalParagraphsInChapter |-> NumParagraphs(s.book, c),
              totalChapters |-> NumChapters(s.book),
              chapterTitle |-> s.book.chapters[c + 1].title]

getCurrentWordInfo(s) ==
    LET c == s.position.chapterIndex
        p == s.position.paragraphIndex
        w == s.position.wordIndex
    IN  IF ~s.book.loaded THEN NoInfo
        ELSE IF ~HasChapter(s.book, c) THEN NoInfo
        ELSE IF ~HasParagraph(s.book, c, p) THEN NoInfo
        ELSE IF ~HasWord(s.book, c, p, w) THEN NoInfo
        ELSE [present |-> TRUE,
              word |-> s.book.chapters[c + 1].paragraphs[p + 1][w + 1],
              position |-> s.position,
              totalWordsInParagraph |-> NumWords(s.book, c, p),
              totalParagraphsInChapter |-> NumParagraphs(s.book, c),
              totalChapters |-> NumChapters(s.book),
              chapterTitle |-> s.book.chapters[c + 1].title]

setStatus(s, st) ==
    [s EXCEPT !.status = st, !.events = Append(@, StatusEvent(st))]

notifyWordChange(s) ==
    [s EXCEPT !.events = Append(@, WordEvent(getCurrentWordInfo(s)))]

(* getCurrentWord() !== null *)
getCurrentWord(s) ==
    /\ s.book.loaded
    /\ HasWord(s.book, s.position.chapterIndex, s.position.paragraphIndex,
               s.position.wordIndex)

(* pause() that leaves the timer armed. *)
pause_keepsTimer(s) ==
    IF s.status = "playing" THEN setStatus(s, "paused") ELSE s

(* pause() that sets the status whatever it was. *)
pause_alwaysNotifies(s) ==
    LET s1 == IF s.timerId # NoTimer
              THEN [s EXCEPT !.pending = @ \ {s.timerId}, !.timerId = NoTimer]
              ELSE s
    IN  setStatus(s1, "paused")

pause(s) ==
    LET s1 == IF s.timerId # NoTimer
              THEN [s EXCEPT !.pending = @ \ {s.timerId}, !.timerId = NoTimer]
              ELSE s
    IN  IF s1.status = "playing" THEN setStatus(s1, "paused") ELSE s1

(* The handle window.setTimeout returns: one that designates no live      *)
(* timer.  The handle of a timer that has fired may be used again: the    *)
(* only holder of a handle is timerId, which scheduleNext() overwrites     *)
(* with the handle it gets.                                                *)
FreshTimer(s) ==
    CHOOSE i \in 1 .. MaxTimers :
        /\ i \notin s.pending
        /\ \A j \in 1 .. i - 1 : j \in s.pending

(* scheduleNext() that arms a timer without looking for a current word. *)
scheduleNext_noWordCheck(s) ==
    IF s.status # "playing" THEN s
    ELSE LET id == FreshTimer(s)
         IN  [s EXCEPT !.timerId = id, !.pending = @ \cup {id}]

scheduleNext(s) ==
    IF s.status # "playing" THEN s
    ELSE IF ~getCurrentWord(s) THEN pause(s)
    ELSE LET id == FreshTimer(s)
         IN  [s EXCEPT !.timerId = id, !.pending = @ \cup {id}]

(* play() without its guard on the status. *)
play_unguarded(s) == scheduleNext(setStatus(s, "playing"))

play(s) ==
    IF s.status # "ready" /\ s.status # "paused" THEN s
    ELSE scheduleNext(setStatus(s, "playing"))

toggle(s) == IF s.status = "playing" THEN pause(s) ELSE play(s)

(* advance() that takes words.length for an index of the paragraph. *)
advance_offByOne(s) ==
    LET c == s.position.chapterIndex
        p == s.position.paragraphIndex
        w == s.position.wordIndex
    IN  IF ~s.book.loaded THEN s
        ELSE IF ~HasChapter(s.book, c) THEN s
        ELSE IF ~HasParagraph(s.book, c, p) THEN s
        ELSE IF w + 1 <= NumWords(s.book, c, p)
             THEN [s EXCEPT !.position.wordIndex = w + 1]
        ELSE IF p + 1 < NumParagraphs(s.book, c)
             THEN [s EXCEPT !.position.paragraphIndex = p + 1,
                            !.position.wordIndex = 0]
        ELSE IF c + 1 < NumChapters(s.book)
             THEN [s EXCEPT !.position = Pos(c + 1, 0, 0)]
        ELSE IF s.status = "playing" THEN setStatus(s, "paused") ELSE s

(* advance() that does not pause at the end of the book. *)
advance_noPause(s) ==
    LET c == s.position.chapterIndex
        p == s.position.paragraphIndex
        w == s.position.wordIndex
    IN  IF ~s.book.loaded THEN s
        ELSE IF ~HasChapter(s.book, c) THEN s
        ELSE IF ~HasParagraph(s.book, c, p) THEN s
        ELSE IF w + 1 < NumWords(s.book, c, p)
             THEN [s EXCEPT !.position.wordIndex = w + 1]
        ELSE IF p + 1 < NumParagraphs(s.book, c)
             THEN [s EXCEPT !.position.paragraphIndex = p + 1,
                            !.position.wordIndex = 0]
        ELSE IF c + 1 < NumChapters(s.book)
             THEN [s EXCEPT !.position = Pos(c + 1, 0, 0)]
        ELSE s

advance(s) ==
    LET c == s.position.chapterIndex
        p == s.position.paragraphIndex
        w == s.position.wordIndex
    IN  IF ~s.book.loaded THEN s
        ELSE IF ~HasChapter(s.book, c) THEN s
        ELSE IF ~HasParagraph(s.book, c, p) THEN s
        ELSE IF w + 1 < NumWords(s.book, c, p)
             THEN [s EXCEPT !.position.wordIndex = w + 1]
        ELSE IF p + 1 < NumParagraphs(s.book, c)
             THEN [s EXCEPT !.position.paragraphIndex = p + 1,
                            !.position.wordIndex = 0]
        ELSE IF c + 1 < NumChapters(s.book)
             THEN [s EXCEPT !.position = Pos(c + 1, 0, 0)]
        ELSE pause(s)

(* retreat() that lands on the first word of the paragraph it moves to. *)
retreat_toFirstWord(s) ==
    LET c == s.position.chapterIndex
        p == s.position.paragraphIndex
        w == s.position.wordIndex
    IN  IF ~s.book.loaded THEN s
        ELSE IF w > 0 THEN [s EXCEPT !.position.wordIndex = w - 1]
        ELSE IF p > 0 THEN [s EXCEPT !.position.paragraphIndex = p - 1]
        ELSE IF c > 0
             THEN [s EXCEPT !.position =
                      Pos(c - 1, Max(0, NumParagraphs(s.book, c - 1) - 1), 0)]
        ELSE s

(* retreat() that lands on words.length instead of words.length - 1. *)
retreat_offByOne(s) ==
    LET c == s.position.chapterIndex
        p == s.position.paragraphIndex
        w == s.position.wordIndex
    IN  IF ~s.book.loaded THEN s
        ELSE IF w > 0 THEN [s EXCEPT !.position.wordIndex = w - 1]
        ELSE IF p > 0
             THEN IF HasParagraph(s.book, c, p - 1)
                  THEN [s EXCEPT !.position.paragraphIndex = p - 1,
                                 !.position.wordIndex = NumWords(s.book, c, p - 1)]
                  ELSE [s EXCEPT !.position.paragraphIndex = p - 1, !.threw = TRUE]
        ELSE IF c > 0
             THEN LET np == Max(0, NumParagraphs(s.book, c - 1) - 1)
                  IN  IF HasParagraph(s.book, c - 1, np)
                      THEN [s EXCEPT !.position =
                                Pos(c - 1, np, NumWords(s.book, c - 1, np))]
                      ELSE [s EXCEPT !.position = Pos(c - 1, np, w), !.threw = TRUE]
        ELSE s

(* retreat() reads newParagraph.words without a check: when the paragraph  *)
(* index it computed designates no paragraph, the read raises a TypeError  *)
(* after chapterIndex and paragraphIndex have been assigned.               *)
retreat(s) ==
    LET c == s.position.chapterIndex
        p == s.position.paragraphIndex
        w == s.position.wordIndex
    IN  IF ~s.book.loaded THEN s
        ELSE IF w > 0 THEN [s EXCEPT !.position.wordIndex = w - 1]
        ELSE IF p > 0
             THEN IF HasParagraph(s.book, c, p - 1)
                  THEN [s EXCEPT !.position.paragraphIndex = p - 1,
                                 !.position.wordIndex =
                                     Max(0, NumWords(s.book, c, p - 1) - 1)]
                  ELSE [s EXCEPT !.position.paragraphIndex = p - 1, !.threw = TRUE]
        ELSE IF c > 0
             THEN LET np == Max(0, NumParagraphs(s.book, c - 1) - 1)
                  IN  IF HasParagraph(s.book, c - 1, np)
                      THEN [s EXCEPT !.position =
                                Pos(c - 1, np, Max(0, NumWords(s.book, c - 1, np) - 1))]
                      ELSE [s EXCEPT !.position = Pos(c - 1, np, w), !.threw = TRUE]
        ELSE s

(* loadBook() without its call of pause(). *)
loadBook_noPause(s, b) ==
    LET s2 == [s EXCEPT !.book = b, !.position = ZeroPos]
    IN  notifyWordChange(setStatus(s2, "ready"))

loadBook(s, b) ==
    LET s1 == pause(s)
        s2 == [s1 EXCEPT !.book = b, !.position = ZeroPos]
    IN  notifyWordChange(setStatus(s2, "ready"))

nextWord(s) ==
    IF ~s.book.loaded THEN s ELSE notifyWordChange(advance(s))

prevWord(s) ==
    IF ~s.book.loaded THEN s
    ELSE LET r == retreat(s)
         IN  IF r.threw THEN r ELSE notifyWordChange(r)

(* A variant that stays silent when the paragraph is already at its start. *)
restartParagraph_quietAtStart(s) ==
    IF s.position.wordIndex = 0
    THEN s
    ELSE notifyWordChange([s EXCEPT !.position.wordIndex = 0])

restartParagraph(s) ==
    notifyWordChange([s EXCEPT !.position.wordIndex = 0])

(* goToChapter() that takes chapters.length for an index of the book. *)
goToChapter_offByOne(s, index) ==
    IF ~s.book.loaded THEN s
    ELSE IF index < 0 \/ index > NumChapters(s.book) THEN s
    ELSE notifyWordChange([s EXCEPT !.position = Pos(index, 0, 0)])

(* goToChapter() that clears the timer before it moves. *)
goToChapter_cancels(s, index) ==
    IF ~s.book.loaded THEN s
    ELSE IF index < 0 \/ index >= NumChapters(s.book) THEN s
    ELSE notifyWordChange([s EXCEPT !.position = Pos(index, 0, 0),
                                    !.pending = @ \ {s.timerId},
                                    !.timerId = NoTimer])

goToChapter(s, index) ==
    IF ~s.book.loaded THEN s
    ELSE IF index < 0 \/ index >= NumChapters(s.book) THEN s
    ELSE notifyWordChange([s EXCEPT !.position = Pos(index, 0, 0)])

nextChapter(s) ==
    IF ~s.book.loaded THEN s
    ELSE LET next == s.position.chapterIndex + 1
         IN  IF next < NumChapters(s.book) THEN goToChapter(s, next) ELSE s

prevChapter(s) ==
    LET prev == s.position.chapterIndex - 1
    IN  IF prev >= 0 THEN goToChapter(s, prev) ELSE s

setWPM(s, n) == [s EXCEPT !.wpm = n]

(* setViewMode() that leaves playback running in paragraph view. *)
setViewMode_noPause(s, mode) ==
    IF s.viewMode = mode THEN s
    ELSE [s EXCEPT !.viewMode = mode, !.events = Append(@, ViewModeEvent(mode))]

setViewMode(s, mode) ==
    IF s.viewMode = mode THEN s
    ELSE LET s1 == IF mode = "paragraph" THEN pause(s) ELSE s
         IN  [s1 EXCEPT !.viewMode = mode, !.events = Append(@, ViewModeEvent(mode))]

toggleViewMode(s) ==
    setViewMode(s, IF s.viewMode = "rsvp" THEN "paragraph" ELSE "rsvp")

(* setPosition() that accepts wordIndex = words.length. *)
setPosition_offByOne(s, pos) ==
    LET c == pos.chapterIndex
        p == pos.paragraphIndex
        w == pos.wordIndex
    IN  IF ~s.book.loaded THEN s
        ELSE IF c < 0 \/ c >= NumChapters(s.book) THEN s
        ELSE IF p < 0 \/ p >= NumParagraphs(s.book, c) THEN s
        ELSE IF w < 0 \/ w > NumWords(s.book, c, p) THEN s
        ELSE notifyWordChange([s EXCEPT !.position = Pos(c, p, w)])

setPosition(s, pos) ==
    LET c == pos.chapterIndex
        p == pos.paragraphIndex
        w == pos.wordIndex
    IN  IF ~s.book.loaded THEN s
        ELSE IF c < 0 \/ c >= NumChapters(s.book) THEN s
        ELSE IF p < 0 \/ p >= NumParagraphs(s.book, c) THEN s
        ELSE IF w < 0 \/ w >= NumWords(s.book, c, p) THEN s
        ELSE notifyWordChange([s EXCEPT !.position = Pos(c, p, w)])

(* The callback scheduleNext() hands to window.setTimeout. *)
timerCallback(s) == scheduleNext(notifyWordChange(advance(s)))

----------------------------------------------------------------------------
(* App.clampPosition.  book.chapters[chapterIndex] is undefined for a book *)
(* without chapters, and reading its paragraphs raises a TypeError.        *)

RECURSIVE WalkBack(_, _)
WalkBack_stays(b, c) == c

WalkBack(b, c) ==
    IF NumParagraphs(b, c) = 0 /\ c > 0 THEN WalkBack(b, c - 1) ELSE c

(* clampPosition() that clamps wordIndex to words.length. *)
clampPosition_offByOne(b, pos) ==
    LET c0 == Max(0, Min(pos.chapterIndex, NumChapters(b) - 1))
    IN  IF ~HasChapter(b, c0) THEN [threw |-> TRUE, position |-> ZeroPos]
        ELSE LET c == WalkBack(b, c0)
                 p == Max(0, Min(pos.paragraphIndex, Max(0, NumParagraphs(b, c) - 1)))
                 w == IF HasParagraph(b, c, p)
                      THEN Max(0, Min(pos.wordIndex, NumWords(b, c, p)))
                      ELSE 0
             IN  [threw |-> FALSE, position |-> Pos(c, p, w)]

clampPosition_wordBefore(b, pos) ==
    LET c0 == Max(0, Min(pos.chapterIndex, NumChapters(b) - 1))
    IN  IF ~HasChapter(b, c0) THEN [threw |-> TRUE, position |-> ZeroPos]
        ELSE LET c == WalkBack(b, c0)
                 p == Max(0, Min(pos.paragraphIndex, Max(0, NumParagraphs(b, c) - 1)))
                 w == IF HasParagraph(b, c, p)
                      THEN Max(0, Min(pos.wordIndex - 1, Max(0, NumWords(b, c, p) - 1)))
                      ELSE 0
             IN  [threw |-> FALSE, position |-> Pos(c, p, w)]

clampPosition(b, pos) ==
    LET c0 == Max(0, Min(pos.chapterIndex, NumChapters(b) - 1))
    IN  IF ~HasChapter(b, c0) THEN [threw |-> TRUE, position |-> ZeroPos]
        ELSE LET c == WalkBack(b, c0)
                 p == Max(0, Min(pos.paragraphIndex, Max(0, NumParagraphs(b, c) - 1)))
                 w == IF HasParagraph(b, c, p)
                      THEN Max(0, Min(pos.wordIndex, Max(0, NumWords(b, c, p) - 1)))
                      ELSE 0
             IN  [threw |-> FALSE, position |-> Pos(c, p, w)]

----------------------------------------------------------------------------
(* Actions: one call on the engine each, or one firing of a timer. *)

NoPauseRun == [calls |-> 0, notes |-> 0, first |-> "idle"]

PausedNotes(evs) ==
    Cardinality({i \in 1 .. Len(evs) : evs[i] = StatusEvent("paused")})

Becomes(s) ==
    /\ status' = s.status
    /\ position' = s.position
    /\ wpm' = s.wpm
    /\ book' = s.book
    /\ viewMode' = s.viewMode
    /\ timerId' = s.timerId
    /\ pending' = s.pending
    /\ events' = s.events
    /\ threw' = s.threw

Call(op, s) ==
    /\ Becomes(s)
    /\ lastOp' = op
    /\ pauseRun' = NoPauseRun
    /\ UNCHANGED <<clampVars, listenerVars, timingVars, laterVars>>

(* Timing (timing.ts, wordlist.ts).  JavaScript numbers are modelled as    *)
(* exact rationals [num, den] in lowest terms with den > 0; a word is the  *)
(* sequence of its characters, the em dash (U+2014) written "---".         *)

RECURSIVE GCD(_, _)
GCD(a, b) == IF b = 0 THEN a ELSE GCD(b, a % b)

Abs(n) == IF n < 0 THEN -n ELSE n

Rat(n, d) ==
    LET g == GCD(Abs(n), d)
    IN  [num |-> n \div g, den |-> d \div g]

RatAdd(x, y) == Rat(x.num * y.den + y.num * x.den, x.den * y.den)
RatMul(x, y) == Rat(x.num * y.num, x.den * y.den)
RatLess(x, y) == x.num * y.den < y.num * x.den
RatLeq(x, y) == x.num * y.den <= y.num * x.den

Zero == Rat(0, 1)

LowerCase == {"a", "d", "e", "h", "i", "l", "m", "n", "o", "r", "s", "t", "w", "x", "y"}
UpperCase == {"T"}
Digits == {"1", "2", "3", "4", "5", "6", "7"}

(* the character class [a-zA-Z0-9] *)
IsAlphanumeric(ch) == ch \in LowerCase \cup UpperCase \cup Digits

(* String.prototype.toLowerCase, on one character *)
toLowerCase(ch) == IF ch = "T" THEN "t" ELSE ch

(* word.slice(-1): the last character, or the empty string *)
LastChar(word) == IF Len(word) = 0 THEN "" ELSE word[Len(word)]

PUNCTUATION_MULTIPLIERS ==
    [ch \in {",", ";", ":", ".", "!", "?", "---", "-"} |->
        IF ch \in {",", ";", ":"} THEN Rat(3, 4)
        ELSE IF ch \in {".", "!", "?"} THEN Rat(3, 2)
        ELSE IF ch = "---" THEN Rat(1, 1)
        ELSE Rat(1, 4)]

DEFAULT_TIMING_SETTINGS ==
    [lengthDelayEnabled |-> FALSE, lengthDelayFactor |-> Rat(1, 10),
     frequencyDelayEnabled |-> FALSE, frequencyDelayFactor |-> Rat(3, 10)]

BUCKET_THRESHOLDS ==
    << [maxRank |-> 1000, multiplier |-> Rat(0, 1)],
       [maxRank |-> 3000, multiplier |-> Rat(1, 4)],
       [maxRank |-> 5000, multiplier |-> Rat(1, 2)],
       [maxRank |-> 10000, multiplier |-> Rat(3, 4)] >>

NOT_IN_LIST_MULTIPLIER == Rat(1, 1)

(* wordRanks before loadWordlist() has run (null), after a failed load    *)
(* (an empty Map) and after a load, with ranks on both sides of every     *)
(* bucket threshold.                                                       *)
NoWordlist == [loaded |-> FALSE, ranks |-> <<>>]

Wordlists ==
    { NoWordlist,
      [loaded |-> TRUE, ranks |-> <<>>],
      [loaded |-> TRUE,
       ranks |-> (<<"t", "h", "e">> :> 1)
              @@ (<<"w", "o", "r", "d">> :> 1000)
              @@ (<<"t", "h", "e", "n">> :> 1001)
              @@ (<<"w", "e", "l", "l">> :> 3000)
              @@ (<<"w", "i", "n", "d", "o", "w">> :> 3001)
              @@ (<<"e", "m", "a", "i", "l">> :> 5000)
              @@ (<<"i", "t", "s">> :> 5001)
              @@ (<<"e", "x", "t", "r", "a", "o", "r", "d", "i", "n", "a", "r", "y">> :> 10000)
              @@ (<<"m", "a", "i", "l">> :> 10001)] }

(* getWordBucketMultiplier() that compares with rank < maxRank. *)
getWordBucketMultiplier_strictRank(wl, word) ==
    IF ~wl.loaded \/ DOMAIN wl.ranks = {} THEN Zero
    ELSE LET lower == [i \in DOMAIN word |-> toLowerCase(word[i])]
             normalized == SelectSeq(lower, LAMBDA ch : ch \in LowerCase)
         IN  IF Len(normalized) = 0 THEN Zero
             ELSE IF normalized \notin DOMAIN wl.ranks THEN NOT_IN_LIST_MULTIPLIER
             ELSE LET rank == wl.ranks[normalized]
                      hit == {i \in DOMAIN BUCKET_THRESHOLDS :
                                 rank < BUCKET_THRESHOLDS[i].maxRank}
                  IN  IF hit = {} THEN NOT_IN_LIST_MULTIPLIER
                      ELSE BUCKET_THRESHOLDS[CHOOSE i \in hit : \A j \in hit : i <= j].multiplier

getWordBucketMultiplier(wl, word) ==
    IF ~wl.loaded \/ DOMAIN wl.ranks = {} THEN Zero
    ELSE LET lower == [i \in DOMAIN word |-> toLowerCase(word[i])]
             normalized == SelectSeq(lower, LAMBDA ch : ch \in LowerCase)
         IN  IF Len(normalized) = 0 THEN Zero
             ELSE IF normalized \notin DOMAIN wl.ranks THEN NOT_IN_LIST_MULTIPLIER
             ELSE LET rank == wl.ranks[normalized]
                      hit == {i \in DOMAIN BUCKET_THRESHOLDS :
                                 rank <= BUCKET_THRESHOLDS[i].maxRank}
                  IN  IF hit = {} THEN NOT_IN_LIST_MULTIPLIER
                      ELSE BUCKET_THRESHOLDS[CHOOSE i \in hit : \A j \in hit : i <= j].multiplier

calculateBaseInterval(n) == Rat(60000, n)

(* calculatePunctuationDelay() with the fixed delays of calculateWordDelay *)
(* (150, 300, 200 and 50 ms), which do not scale with the speed.           *)
calculatePunctuationDelay_fixed(word, baseInterval) ==
    LET lastChar == LastChar(word)
        multiplier == IF lastChar \in DOMAIN PUNCTUATION_MULTIPLIERS
                      THEN PUNCTUATION_MULTIPLIERS[lastChar] ELSE Zero
    IN  RatMul(Rat(200, 1), multiplier)

calculatePunctuationDelay(word, baseInterval) ==
    LET lastChar == LastChar(word)
        multiplier == IF lastChar \in DOMAIN PUNCTUATION_MULTIPLIERS
                      THEN PUNCTUATION_MULTIPLIERS[lastChar] ELSE Zero
    IN  RatMul(baseInterval, multiplier)

(* calculateLengthDelay() that counts every character of the word. *)
calculateLengthDelay_rawLength(word, baseInterval, factor) ==
    LET extraChars == Len(word) - 5
    IN  IF extraChars <= 0 THEN Zero
        ELSE RatMul(RatMul(Rat(extraChars, 1), factor), baseInterval)

(* calculateLengthDelay() without the test for words of five characters   *)
(* or fewer.                                                               *)
calculateLengthDelay_noFloor(word, baseInterval, factor) ==
    LET stripped == SelectSeq(word, IsAlphanumeric)
        extraChars == Len(stripped) - 5
    IN  RatMul(RatMul(Rat(extraChars, 1), factor), baseInterval)

calculateLengthDelay(word, baseInterval, factor) ==
    LET stripped == SelectSeq(word, IsAlphanumeric)
        extraChars == Len(stripped) - 5
    IN  IF extraChars <= 0 THEN Zero
        ELSE RatMul(RatMul(Rat(extraChars, 1), factor), baseInterval)

calculateFrequencyDelay(wl, word, baseInterval, factor) ==
    LET bucketMultiplier == getWordBucketMultiplier(wl, word)
    IN  RatMul(RatMul(bucketMultiplier, factor), baseInterval)

calculateTotalDelay(wl, word, n, settings) ==
    LET baseInterval == calculateBaseInterval(n)
        d1 == RatAdd(baseInterval, calculatePunctuationDelay(word, baseInterval))
        d2 == IF settings.lengthDelayEnabled
              THEN RatAdd(d1, calculateLengthDelay(word, baseInterval,
                                                   settings.lengthDelayFactor))
              ELSE d1
        d3 == IF settings.frequencyDelayEnabled
              THEN RatAdd(d2, calculateFrequencyDelay(wl, word, baseInterval,
                                                      settings.frequencyDelayFactor))
              ELSE d2
    IN  d3

NoDelay == [done |-> FALSE, value |-> Zero]

----------------------------------------------------------------------------
(* Recognition point (word-processor.ts).  The characters of the source    *)
(* outside ASCII are written by their code points: "U+00E2", "U+20AC" and  *)
(* "U+201D" are the three characters that stand in the character class of  *)
(* calculateORP where an em dash would be expected.                        *)

TrailingPunctuation ==
    {".", ",", "!", "?", ";", ":", "'", "\"", "U+00E2", "U+20AC", "U+201D", "-"}

RECURSIVE StripTrailing(_, _)
StripTrailing(word, len) ==
    IF len > 0 /\ word[len] \in TrailingPunctuation
    THEN StripTrailing(word, len - 1)
    ELSE len

calculateORP(word) ==
    LET len == StripTrailing(word, Len(word))
    IN  IF len <= 1 THEN 0
        ELSE IF len <= 3 THEN 1
        ELSE (len \div 2) - 1

NoOrp == [done |-> FALSE, value |-> 0]

----------------------------------------------------------------------------
(* The variables of the parts of the program modelled further on, as they *)
(* are when those parts have not run.                                      *)
(* Scheduling with its delay (engine.ts, scheduleNext).  The engine state  *)
(* is extended by the field delays: for each armed timer the delay handed  *)
(* to setTimeout, and the word, wpm and settings it was computed from.     *)
(* The engine holds the settings getter; what the getter returns is read   *)
(* from the application's stored settings at the moment of the call.       *)

ScheduleBook ==
    [loaded |-> TRUE,
     chapters |-> << [title |-> "S",
                      paragraphs |-> << <<"the", "well,">>,
                                        <<"extraordinary.">> >>] >>]

(* The text of a word of ScheduleBook, character by character. *)
Spelling ==
    ("the" :> <<"t", "h", "e">>)
    @@ ("well," :> <<"w", "e", "l", "l", ",">>)
    @@ ("extraordinary." :>
          <<"e", "x", "t", "r", "a", "o", "r", "d", "i", "n", "a", "r", "y", ".">>)

CurrentText(s) ==
    Spelling[s.book.chapters[s.position.chapterIndex + 1]
                .paragraphs[s.position.paragraphIndex + 1][s.position.wordIndex + 1]]

getTimingSettings(getter, stored) ==
    IF getter THEN stored ELSE DEFAULT_TIMING_SETTINGS

(* A variant that never asks the getter. *)
scheduleDelay_defaultSettings(wl, s, getter, stored) ==
    calculateTotalDelay(wl, CurrentText(s), s.wpm, DEFAULT_TIMING_SETTINGS)

scheduleDelay(wl, s, getter, stored) ==
    calculateTotalDelay(wl, CurrentText(s), s.wpm, getTimingSettings(getter, stored))

scheduleNextTimed(s, wl, getter, stored) ==
    IF s.status # "playing" THEN s
    ELSE IF ~getCurrentWord(s) THEN pause(s)
    ELSE LET id == FreshTimer(s)
             totalDelay == scheduleDelay(wl, s, getter, stored)
         IN  [s EXCEPT !.timerId = id,
                       !.pending = @ \cup {id},
                       !.delays = (id :> [delay |-> totalDelay,
                                          word |-> CurrentText(s),
                                          wpm |-> s.wpm,
                                          settings |-> getTimingSettings(getter, stored)])
                                  @@ @]

playTimed(s, wl, getter, stored) ==
    IF s.status # "ready" /\ s.status # "paused" THEN s
    ELSE scheduleNextTimed(setStatus(s, "playing"), wl, getter, stored)

timerCallbackTimed(s, wl, getter, stored) ==
    scheduleNextTimed(notifyWordChange(advance(s)), wl, getter, stored)

NoTimersArmed == <<>>

ScheduleIdle ==
    /\ timingSettingsGetter = FALSE
    /\ appSettings = DEFAULT_TIMING_SETTINGS
    /\ armed = NoTimersArmed

----------------------------------------------------------------------------
(* The server's books table (db.ts) and its route handlers.  A row keeps   *)
(* the columns the handlers read or write; last_read_at is TRUE when the   *)
(* column holds a timestamp.  The table is the sequence of its rows in     *)
(* order of insertion.                                                     *)

Hashes == {"h1", "h2"}
Filenames == {"a.epub", "b.epub"}
NoHash == ""

NoRow ==
    [id |-> 0, hash |-> NoHash, filename |-> "", last_read_at |-> FALSE,
     position_chapter |-> 0, position_paragraph |-> 0, position_word |-> 0,
     position_wpm |-> 0]

NewRow(id, hash, filename) ==
    [id |-> id, hash |-> hash, filename |-> filename, last_read_at |-> FALSE,
     position_chapter |-> 0, position_paragraph |-> 0, position_word |-> 0,
     position_wpm |-> DEFAULT_WPM]

getBook(table, hash) ==
    IF \E i \in DOMAIN table : table[i].hash = hash
    THEN table[CHOOSE i \in DOMAIN table :
                  /\ table[i].hash = hash
                  /\ \A j \in 1 .. i - 1 : table[j].hash # hash]
    ELSE NoRow

NextId(table) ==
    IF table = <<>> THEN 1
    ELSE 1 + (CHOOSE m \in {table[i].id : i \in DOMAIN table} :
                 \A i \in DOMAIN table : table[i].id <= m)

(* A variant that inserts without looking for the hash. *)
addBook_insertOnly(table, hash, filename) ==
    Append(table, NewRow(NextId(table), hash, filename))

addBook(table, hash, filename) ==
    IF getBook(table, hash) # NoRow
    THEN [i \in DOMAIN table |->
             IF table[i].hash = hash
             THEN [table[i] EXCEPT !.filename = filename]
             ELSE table[i]]
    ELSE Append(table, NewRow(NextId(table), hash, filename))

updateLastRead(table, hash) ==
    [i \in DOMAIN table |->
        IF table[i].hash = hash
        THEN [table[i] EXCEPT !.last_read_at = TRUE]
        ELSE table[i]]

updatePosition(table, hash, c, p, w, n) ==
    [i \in DOMAIN table |->
        IF table[i].hash = hash
        THEN [table[i] EXCEPT !.position_chapter = c,
                              !.position_paragraph = p,
                              !.position_word = w,
                              !.position_wpm = n,
                              !.last_read_at = TRUE]
        ELSE table[i]]

NoSavedPosition ==
    [present |-> FALSE, chapterIndex |-> 0, paragraphIndex |-> 0, wordIndex |-> 0,
     wpm |-> 0]

SavedPosition(c, p, w, n) ==
    [present |-> TRUE, chapterIndex |-> c, paragraphIndex |-> p, wordIndex |-> w,
     wpm |-> n]

getPosition(table, hash) ==
    LET row == getBook(table, hash)
    IN  IF row = NoRow THEN NoSavedPosition
        ELSE IF /\ ~row.last_read_at
                /\ row.position_chapter = 0
                /\ row.position_paragraph = 0
                /\ row.position_word = 0
             THEN NoSavedPosition
        ELSE SavedPosition(row.position_chapter, row.position_paragraph,
                           row.position_word, row.position_wpm)

(* PUT /position.  A body carries the four values and whether each of them *)
(* is a number; the handler looks at nothing else.                         *)
Body(c, p, w, n, numeric) ==
    [chapterIndex |-> c, paragraphIndex |-> p, wordIndex |-> w, wpm |-> n,
     numeric |-> numeric]

putPositionAccepts(table, hash, body) ==
    getBook(table, hash) # NoRow /\ body.numeric

putPosition(table, hash, body) ==
    IF getBook(table, hash) = NoRow THEN table
    ELSE IF ~body.numeric THEN table
    ELSE updatePosition(table, hash, body.chapterIndex, body.paragraphIndex,
                        body.wordIndex, body.wpm)

(* GET /api/books: for each row its hash and its position. *)
listBooks(table) ==
    [i \in DOMAIN table |->
        [hash |-> table[i].hash, position |-> getPosition(table, table[i].hash)]]

(* POST /api/books up to the metadata extraction, and after it. *)
NoResponse ==
    [status |-> 0, id |-> 0, hash |-> NoHash, filename |-> "",
     alreadyExists |-> FALSE, position |-> NoSavedPosition]

postBooks(table, hash, filename) ==
    LET existing == getBook(table, hash)
    IN  IF existing # NoRow
        THEN [phase |-> "done",
              response |-> [status |-> 200, id |-> existing.id,
                            hash |-> existing.hash, filename |-> existing.filename,
                            alreadyExists |-> TRUE,
                            position |-> getPosition(table, hash)]]
        ELSE [phase |-> "extracting", response |-> NoResponse]

postBooksAdded(table, hash) ==
    LET added == getBook(table, hash)
    IN  [status |-> 201, id |-> added.id, hash |-> added.hash,
         filename |-> added.filename, alreadyExists |-> FALSE,
         position |-> NoSavedPosition]

NoUpload == [phase |-> "new", hash |-> NoHash, filename |-> "", response |-> NoResponse]

NoRequest == [hash |-> NoHash, body |-> Body(0, 0, 0, 0, FALSE)]

(* The application (App, Library).  The book behind every hash has the     *)
(* same extracted structure each time it is opened.                        *)
AppBook ==
    [loaded |-> TRUE,
     chapters |-> << [title |-> "D", paragraphs |-> << <<"e">>, <<"f", "g.">> >>] >>]

savePosition(current, s) ==
    IF current = NoHash THEN NoRequest
    ELSE [hash |-> current,
          body |-> Body(s.position.chapterIndex, s.position.paragraphIndex,
                        s.position.wordIndex, s.wpm, TRUE)]

(* openBook's test for raising the "saved position was out of bounds"      *)
(* notice: clamping changed one of the three components.                   *)
positionWasClamped(savedPos, clampedPos) ==
    \/ clampedPos.chapterIndex # savedPos.chapterIndex
    \/ clampedPos.paragraphIndex # savedPos.paragraphIndex
    \/ clampedPos.wordIndex # savedPos.wordIndex

restorePosition(s, b, saved) ==
    IF saved.present
    THEN setPosition(setWPM(s, saved.wpm), clampPosition(b, saved).position)
    ELSE s

adjustWPM(s, delta) ==
    setWPM(s, Max(MIN_WPM, Min(MAX_WPM, s.wpm + delta)))

NothingSaved == [h \in Hashes |-> NoSavedPosition]

(* No callback that calls back into the engine is registered. *)
NoSubscriber == [channel |-> "none", on |-> "", script |-> <<>>, attached |-> FALSE]

AppIdle ==
    /\ rows = <<>>
    /\ uploads = [r \in 1 .. MaxUploads |-> NoUpload]
    /\ lastSaved = NothingSaved
    /\ libraryBooks = <<>>
    /\ cardsShown = FALSE
    /\ currentBookHash = NoHash
    /\ putRequest = NoRequest
    /\ getRequest = FALSE

----------------------------------------------------------------------------
OrpIdle ==
    /\ orpWord = <<>>
    /\ orpOut = NoOrp

(* The engine on its own: no server and no application around it, so no   *)
(* upload request and no saved position to keep track of.                  *)
AppAbsent ==
    /\ rows = <<>>
    /\ uploads = <<>>
    /\ lastSaved = <<>>
    /\ libraryBooks = <<>>
    /\ cardsShown = FALSE
    /\ currentBookHash = NoHash
    /\ putRequest = NoRequest
    /\ getRequest = FALSE

LaterInit ==
    /\ OrpIdle
    /\ ScheduleIdle
    /\ AppAbsent
    /\ subscriber = NoSubscriber

----------------------------------------------------------------------------
(* Listener sets.  wordListeners, statusListeners and viewModeListeners    *)
(* are JavaScript Sets of callbacks.  A Set keeps its entries in insertion *)
(* order; delete() empties the entry in place, add() of an absent value    *)
(* appends an entry, and forEach() walks the entries by index, passing     *)
(* over the emptied ones and reaching the ones appended while it runs.     *)
(* The emptied entries are dropped once no forEach is walking the Set.     *)

Channels == {"word", "status", "viewMode"}
Callbacks == 1 .. MaxCallbacks
Empty == 0

NoListeners == [ch \in Channels |-> <<>>]

SetHas(slots, cb) == \E i \in DOMAIN slots : slots[i] = cb
SetAdd(slots, cb) == IF SetHas(slots, cb) THEN slots ELSE Append(slots, cb)
SetDelete(slots, cb) == [i \in DOMAIN slots |-> IF slots[i] = cb THEN Empty ELSE slots[i]]
Members(slots) == {slots[i] : i \in DOMAIN slots} \ {Empty}
Compact(slots) == SelectSeq(slots, LAMBDA x : x # Empty)

(* forEach() over a copy of the Set taken when the dispatch began. *)
forEachNext_snapshot(slots, snapshot, index) ==
    LET later == {i \in DOMAIN snapshot : i > index /\ snapshot[i] # Empty}
    IN  IF later = {} THEN [index |-> 0, callback |-> Empty]
        ELSE LET i == CHOOSE k \in later : \A j \in later : k <= j
             IN  [index |-> i, callback |-> snapshot[i]]

(* The entry forEach() visits after the one at index: the next entry of    *)
(* the live Set that is not empty (index 0 and Empty when there is none).  *)
forEachNext(slots, snapshot, index) ==
    LET later == {i \in DOMAIN slots : i > index /\ slots[i] # Empty}
    IN  IF later = {} THEN [index |-> 0, callback |-> Empty]
        ELSE LET i == CHOOSE k \in later : \A j \in later : k <= j
             IN  [index |-> i, callback |-> slots[i]]

(* What a callback does with the engine's subscriptions while it runs:     *)
(* nothing, one attachment, or one call of a detachment handle.            *)
Effects ==
    {[kind |-> "none", channel |-> "none", callback |-> Empty]}
        \cup [kind : {"attach", "detach"}, channel : Channels, callback : Callbacks]

NoDispatch ==
    [phase |-> "idle", channel |-> "none", index |-> 0, snapshot |-> <<>>,
     before |-> {}, invoked |-> <<>>, detached |-> {}, cutOff |-> {},
     attachedDuring |-> {}]

(* The callbacks invoked for the event so far, and how often cb was. *)
InvokedCallbacks(d) == {d.invoked[i].callback : i \in DOMAIN d.invoked}
TimesInvoked(d, cb) == Cardinality({i \in DOMAIN d.invoked : d.invoked[i].callback = cb})

(* An unused handle exists for window.setTimeout to return. *)
CanArm == Cardinality(pending) < MaxTimers

LoadBook(b) == Call("loadBook", loadBook(Eng, b))

Play == CanArm /\ Call("play", play(Eng))

Pause ==
    LET s == pause(Eng)
    IN  /\ Becomes(s)
        /\ lastOp' = "pause"
        /\ pauseRun' =
              [calls |-> Min(pauseRun.calls + 1, MaxPauseRun),
               notes |-> Min(pauseRun.notes + PausedNotes(s.events), MaxPauseRun),
               first |-> IF pauseRun.calls = 0 THEN status ELSE pauseRun.first]
        /\ UNCHANGED <<clampVars, listenerVars, timingVars, laterVars>>

Toggle == CanArm /\ Call("toggle", toggle(Eng))

NextWord == Call("nextWord", nextWord(Eng))

PrevWord == Call("prevWord", prevWord(Eng))

RestartParagraph == Call("restartParagraph", restartParagraph(Eng))

GoToChapter(i) == Call("goToChapter", goToChapter(Eng, i))

NextChapter == Call("nextChapter", nextChapter(Eng))

PrevChapter == Call("prevChapter", prevChapter(Eng))

SetWPM(n) == Call("setWPM", setWPM(Eng, n))

SetViewMode(m) == Call("setViewMode", setViewMode(Eng, m))

ToggleViewMode == Call("toggleViewMode", toggleViewMode(Eng))

SetPosition(pos) == Call("setPosition", setPosition(Eng, pos))

(* A pending timer fires: it is no longer pending and its callback runs. *)
TimerFires(id) ==
    /\ id \in pending
    /\ CanArm
    /\ Call("timer", timerCallback([Eng EXCEPT !.pending = @ \ {id}]))

Init ==
    /\ status = "idle"
    /\ position = ZeroPos
    /\ wpm = DEFAULT_WPM
    /\ book = NoBook
    /\ viewMode = "rsvp"
    /\ timerId = NoTimer
    /\ pending = {}
    /\ events = <<>>
    /\ threw = FALSE
    /\ lastOp = "new"
    /\ pauseRun = NoPauseRun
    /\ clampBook = NoBook
    /\ clampPos = ZeroPos
    /\ clampOut = [done |-> FALSE, threw |-> FALSE, position |-> ZeroPos]
    /\ listeners = NoListeners
    /\ dispatch = NoDispatch
    /\ wordRanks = NoWordlist
    /\ delayWord = <<>>
    /\ delayWpm = DEFAULT_WPM
    /\ delaySettings = DEFAULT_TIMING_SETTINGS
    /\ delayOut = NoDelay
    /\ LaterInit

Next ==
    \/ \E b \in Books : LoadBook(b)
    \/ Play
    \/ Pause
    \/ Toggle
    \/ NextWord
    \/ PrevWord
    \/ RestartParagraph
    \/ \E i \in ChapterArgs : GoToChapter(i)
    \/ NextChapter
    \/ PrevChapter
    \/ \E n \in WpmValues : SetWPM(n)
    \/ \E m \in ViewModes : SetViewMode(m)
    \/ ToggleViewMode
    \/ \E pos \in PosArgs : SetPosition(pos)
    \/ \E id \in 1 .. MaxTimers : TimerFires(id)

Spec == Init /\ [][Next]_vars

----------------------------------------------------------------------------
(* Vocabulary of the properties *)

NavOps ==
    {"nextWord", "prevWord", "restartParagraph", "goToChapter", "nextChapter",
     "prevChapter", "setPosition"}

(* pos is the last word of the last paragraph of the last chapter of b. *)
IsLastWord(b, pos) ==
    /\ IsValid(b, pos)
    /\ pos.chapterIndex = NumChapters(b) - 1
    /\ pos.paragraphIndex = NumParagraphs(b, pos.chapterIndex) - 1
    /\ pos.wordIndex = NumWords(b, pos.chapterIndex, pos.paragraphIndex) - 1

(* pos designates a paragraph of b after whose word pos.wordIndex the book *)
(* has no word, no paragraph and no chapter.                               *)
NothingAfter(b, pos) ==
    /\ HasParagraph(b, pos.chapterIndex, pos.paragraphIndex)
    /\ pos.wordIndex + 1 >= NumWords(b, pos.chapterIndex, pos.paragraphIndex)
    /\ pos.paragraphIndex + 1 >= NumParagraphs(b, pos.chapterIndex)
    /\ pos.chapterIndex + 1 >= NumChapters(b)

(* The statuses the status-change notifications of evs carry, in order. *)
StatusChain(evs) ==
    LET st == SelectSeq(evs, LAMBDA e : e.type = "status")
    IN  [i \in 1 .. Len(st) |-> st[i].status]

----------------------------------------------------------------------------
(* C1, as claimed: whenever a book is loaded, whatever its shape, the      *)
(* position is valid for it.                                               *)
C1_ValidForAnyBook == book.loaded => IsValid(book, position)

(* C1, amended: whenever the loaded book is well formed (it has a chapter, *)
(* every chapter has a paragraph and every paragraph a word), the position *)
(* is valid for it, after any sequence of calls and timer firings.         *)
C1_ValidForWellFormedBook == WellFormed(book) => IsValid(book, position)

(* prevWord has crossed a chapter boundary backwards in a well-formed book. *)
C1_Witness ==
    /\ lastOp = "prevWord"
    /\ WellFormed(book)
    /\ NumChapters(book) = 2
    /\ position = Pos(0, 1, 1)

----------------------------------------------------------------------------
(* C2, as claimed: a navigation call made while a continuation is pending  *)
(* cancels it before moving the position: no timer that was pending before *)
(* a navigation call that moved the position is pending after it.          *)
C2_NavigationCancels ==
    [][(lastOp' \in NavOps /\ pending # {} /\ position' # position)
          => pending' \cap pending = {}]_vars

(* C2, amended: navigation does not cancel.  A navigation call made while  *)
(* a continuation is pending leaves that continuation pending, the held    *)
(* handle and the status as they were, whether or not it moved the         *)
(* position; the one exception is nextWord() where nothing follows the     *)
(* current position, which pauses and so cancels the continuation.         *)
C2_NavigationKeepsTimer ==
    [][(lastOp' \in NavOps /\ pending # {})
          => IF lastOp' = "nextWord" /\ NothingAfter(book, position)
             THEN pending' = {} /\ timerId' = NoTimer /\ status' = "paused"
             ELSE pending' = pending /\ timerId' = timerId /\ status' = status]_vars

(* goToChapter has moved the position under a pending continuation. *)
C2_Witness ==
    /\ lastOp = "goToChapter"
    /\ position.chapterIndex = 1
    /\ Len(events) = 1
    /\ status = "playing"
    /\ pending # {}

----------------------------------------------------------------------------
(* C3: in every reachable state at most one continuation is pending, and   *)
(* a pending one is the one whose handle the engine holds.                 *)
C3_AtMostOnePending ==
    /\ Cardinality(pending) <= 1
    /\ pending \subseteq {timerId}

(* A continuation has fired and armed its successor. *)
C3_Witness ==
    /\ lastOp = "timer"
    /\ Cardinality(pending) = 1
    /\ status = "playing"

----------------------------------------------------------------------------
(* C4, as claimed: play() from ready or paused ends with status playing    *)
(* and a continuation pending; from any other status it changes nothing    *)
(* and notifies nobody.                                                    *)
C4_PlayAlwaysPlays ==
    [][lastOp' = "play"
          => IF status \in {"ready", "paused"}
             THEN /\ status' = "playing"
                  /\ Cardinality(pending') = 1
                  /\ position' = position
             ELSE /\ UNCHANGED <<status, position, wpm, book, viewMode, timerId, pending>>
                  /\ events' = <<>>]_vars

(* C4, amended: play() from ready or paused, when the position designates  *)
(* a word, ends with status playing, one status-change("playing") and one  *)
(* continuation pending for the unchanged position; when the position      *)
(* designates no word it notifies "playing" then "paused" and ends paused  *)
(* with nothing pending.  From idle or playing it changes nothing,         *)
(* notifies nobody and arms nothing.                                       *)
C4_PlayEffect ==
    [][lastOp' = "play"
          => IF status \in {"ready", "paused"}
             THEN /\ position' = position
                  /\ book' = book
                  /\ IF IsValid(book, position)
                     THEN /\ status' = "playing"
                          /\ events' = <<StatusEvent("playing")>>
                          /\ timerId' # NoTimer
                          /\ pending' = {timerId'}
                     ELSE /\ status' = "paused"
                          /\ events' = <<StatusEvent("playing"), StatusEvent("paused")>>
                          /\ timerId' = NoTimer
                          /\ pending' = {}
             ELSE /\ UNCHANGED <<status, position, wpm, book, viewMode, timerId, pending>>
                  /\ events' = <<>>]_vars

(* play() has started playback at a word. *)
C4_Witness ==
    /\ lastOp = "play"
    /\ status = "playing"
    /\ events = <<StatusEvent("playing")>>
    /\ pending # {}

----------------------------------------------------------------------------
(* C5: in a run of consecutive pause() calls, "paused" is notified once in *)
(* all if the first call found the engine playing and never otherwise, the *)
(* status is paused in the first case and what it was in the second, only  *)
(* the first call of the run notifies, and nothing is pending.             *)
C5_PauseIdempotent ==
    lastOp = "pause"
        => /\ pending = {}
           /\ timerId = NoTimer
           /\ pauseRun.notes = (IF pauseRun.first = "playing" THEN 1 ELSE 0)
           /\ status = (IF pauseRun.first = "playing" THEN "paused" ELSE pauseRun.first)
           /\ events = (IF pauseRun.first = "playing" /\ pauseRun.calls = 1
                        THEN <<StatusEvent("paused")>> ELSE <<>>)

(* pause() has been called twice in a row, the first time while playing. *)
C5_Witness ==
    /\ lastOp = "pause"
    /\ pauseRun.calls = 2
    /\ pauseRun.first = "playing"
    /\ pauseRun.notes = 1
    /\ events = <<>>

----------------------------------------------------------------------------
(* C6: a continuation that fires at the last word of the last paragraph of *)
(* the last chapter leaves the position unchanged, sets the status paused  *)
(* and leaves no continuation pending.                                     *)
C6_EndOfBookPauses ==
    [][(lastOp' = "timer" /\ IsLastWord(book, position))
          => /\ position' = position
             /\ status' = "paused"
             /\ pending' = {}
             /\ timerId' = NoTimer]_vars

(* A continuation has fired at the last word of a book with two chapters. *)
C6_Witness ==
    /\ lastOp = "timer"
    /\ IsLastWord(book, position)
    /\ NumChapters(book) = 2
    /\ status = "paused"

----------------------------------------------------------------------------
(* C7: every change of status is notified; in the chain of statuses of one *)
(* call, "paused" follows "playing" and nothing else does, so "paused" is  *)
(* notified once each time the status leaves playing and at no other time; *)
(* in particular not when a continuation moves on to a next word, and not  *)
(* when pause() is called while not playing.                               *)
C7_PausedExactlyOnLeavingPlaying ==
    [][LET chain == <<status>> \o StatusChain(events')
       IN  /\ chain[Len(chain)] = status'
           /\ \A i \in 1 .. Len(chain) - 1 :
                 (chain[i] = "playing") <=> (chain[i + 1] = "paused")
           /\ (status = "playing" /\ status' # "playing") => PausedNotes(events') = 1
           /\ (lastOp' = "timer" /\ position' # position /\ IsValid(book', position'))
                 => PausedNotes(events') = 0
           /\ (lastOp' = "pause" /\ status # "playing") => PausedNotes(events') = 0]_vars

(* loadBook() was called while playing: "paused", then "ready". *)
C7_Witness ==
    /\ lastOp = "loadBook"
    /\ PausedNotes(events) = 1
    /\ Len(events) = 3

----------------------------------------------------------------------------
(* C8: in every reachable state and for every book b, loadBook(b) ends at *)
(* position {0,0,0} with status ready, book b and nothing pending; its     *)
(* notifications are status changes ("paused" if it was playing, then      *)
(* "ready") followed by one word change carrying the word info of the new  *)
(* state.                                                                  *)
C8_LoadBookResets ==
    \A b \in Books :
        LET r == loadBook(Eng, b)
            n == Len(r.events)
        IN  /\ r.position = ZeroPos
            /\ r.status = "ready"
            /\ r.book = b
            /\ r.pending = {}
            /\ r.timerId = NoTimer
            /\ ~r.threw
            /\ n = (IF status = "playing" THEN 3 ELSE 2)
            /\ r.events[n] =
                  WordEvent(getCurrentWordInfo([Eng EXCEPT !.book = b, !.position = ZeroPos]))
            /\ r.events[n - 1] = StatusEvent("ready")
            /\ n = 3 => r.events[1] = StatusEvent("paused")

(* loadBook() of a book with chapters was called while playing. *)
C8_Witness ==
    /\ lastOp = "loadBook"
    /\ events[1] = StatusEvent("paused")
    /\ NumChapters(book) = 2
    /\ viewMode = "paragraph"

----------------------------------------------------------------------------
(* C9: in every reachable state with a book loaded, setPosition(pos) with *)
(* pos valid for the book sets the position to pos and delivers one        *)
(* word-change notification, for pos; with any component out of range it   *)
(* leaves the position as it was and delivers nothing.  Either way status, *)
(* book and timer are left as they were.                                   *)
C9_SetPositionAllOrNothing ==
    book.loaded
        => \A pos \in PosArgs :
              LET r == setPosition(Eng, pos)
              IN  /\ r.status = status
                  /\ r.book = book
                  /\ r.timerId = timerId
                  /\ r.pending = pending
                  /\ ~r.threw
                  /\ IF IsValid(book, pos)
                     THEN /\ r.position = pos
                          /\ r.events =
                                <<WordEvent(getCurrentWordInfo([Eng EXCEPT !.position = pos]))>>
                     ELSE /\ r.position = position
                          /\ r.events = <<>>

(* setPosition() has moved the position to a word other than the first. *)
C9_Witness ==
    /\ lastOp = "setPosition"
    /\ position = Pos(1, 1, 1)
    /\ Len(events) = 1
    /\ events[1].info.present

----------------------------------------------------------------------------
(* The position one word after pos in b, as C11 states it. *)
AdvanceTarget(b, pos) ==
    LET c == pos.chapterIndex
        p == pos.paragraphIndex
        w == pos.wordIndex
    IN  IF w + 1 < NumWords(b, c, p) THEN Pos(c, p, w + 1)
        ELSE IF p + 1 < NumParagraphs(b, c) THEN Pos(c, p + 1, 0)
        ELSE IF c + 1 < NumChapters(b) THEN Pos(c + 1, 0, 0)
        ELSE pos

(* C11: in every reachable state with a valid position (c,p,w), one       *)
(* advance, by nextWord() or by a pending continuation firing, moves to    *)
(* (c,p,w+1) if the paragraph has that word, otherwise to (c,p+1,0) if the *)
(* chapter has that paragraph, otherwise to (c+1,0,0) if the book has that *)
(* chapter, and otherwise leaves the position unchanged.                   *)
C11_AdvanceByOneWord ==
    IsValid(book, position)
        => /\ nextWord(Eng).position = AdvanceTarget(book, position)
           /\ \A id \in pending :
                 timerCallback([Eng EXCEPT !.pending = @ \ {id}]).position
                    = AdvanceTarget(book, position)

(* A continuation has crossed a chapter boundary of a well-formed book. *)
C11_Witness ==
    /\ lastOp = "timer"
    /\ WellFormed(book)
    /\ position = Pos(1, 0, 0)
    /\ status = "playing"

----------------------------------------------------------------------------
(* C12: in every reachable state with a book loaded and position (c,p,w), *)
(* prevWord() moves to (c,p,w-1) if w > 0; otherwise to                    *)
(* (c,p-1,max(0,#words(c,p-1)-1)) if p > 0; otherwise, if c > 0, to        *)
(* chapter c-1 with paragraphIndex max(0,#paragraphs(c-1)-1) and, where    *)
(* that paragraph exists, wordIndex max(0,#words-1) of it; at (0,0,0) it   *)
(* leaves the position unchanged.                                          *)
C12_RetreatByOneWord ==
    book.loaded
        => LET c == position.chapterIndex
               p == position.paragraphIndex
               w == position.wordIndex
               r == prevWord(Eng).position
           IN  IF w > 0 THEN r = Pos(c, p, w - 1)
               ELSE IF p > 0
                    THEN /\ HasParagraph(book, c, p - 1)
                         /\ r = Pos(c, p - 1, Max(0, NumWords(book, c, p - 1) - 1))
               ELSE IF c > 0
                    THEN LET np == Max(0, NumParagraphs(book, c - 1) - 1)
                         IN  /\ r.chapterIndex = c - 1
                             /\ r.paragraphIndex = np
                             /\ HasParagraph(book, c - 1, np)
                                   => r.wordIndex = Max(0, NumWords(book, c - 1, np) - 1)
               ELSE r = position

(* prevWord() has moved back into a paragraph without words. *)
C12_Witness ==
    /\ lastOp = "prevWord"
    /\ NumChapters(book) = 2
    /\ position = Pos(0, 2, 0)
    /\ NumWords(book, 0, 2) = 0
    /\ ~threw

----------------------------------------------------------------------------
(* C13: in every reachable state, goToChapter(i) with 0 <= i < #chapters   *)
(* sets the position to (i,0,0) and delivers one word-change notification  *)
(* and nothing else; with i out of range it changes nothing and notifies   *)
(* nobody.  nextChapter() at the last chapter and prevChapter() at chapter *)
(* 0 change nothing and notify nobody; elsewhere they are goToChapter of   *)
(* the next and the previous chapter.                                      *)
C13_ChapterNavigation ==
    /\ \A i \in ChapterArgs :
          LET r == goToChapter(Eng, i)
          IN  IF book.loaded /\ 0 <= i /\ i < NumChapters(book)
              THEN r = [Eng EXCEPT
                          !.position = Pos(i, 0, 0),
                          !.events = <<WordEvent(getCurrentWordInfo(
                                         [Eng EXCEPT !.position = Pos(i, 0, 0)]))>>]
              ELSE r = Eng
    /\ book.loaded
          => /\ nextChapter(Eng) =
                   (IF position.chapterIndex + 1 >= NumChapters(book) THEN Eng
                    ELSE goToChapter(Eng, position.chapterIndex + 1))
             /\ prevChapter(Eng) =
                   (IF position.chapterIndex = 0 THEN Eng
                    ELSE goToChapter(Eng, position.chapterIndex - 1))

(* goToChapter(1) has moved the position from elsewhere in the book. *)
C13_Witness ==
    /\ lastOp = "goToChapter"
    /\ position = Pos(1, 0, 0)
    /\ Len(events) = 1
    /\ events[1].type = "word"

----------------------------------------------------------------------------
(* The word-change notifications among evs, in order. *)
WordNotes(evs) == SelectSeq(evs, LAMBDA e : e.type = "word")

(* C14: after nextWord() or prevWord() with a book loaded, exactly one     *)
(* word-change notification has been delivered by the call, and it carries *)
(* the word info of the position after the call.                           *)
C14_OneWordChangePerStep ==
    (lastOp \in {"nextWord", "prevWord"} /\ book.loaded)
        => WordNotes(events) = <<WordEvent(getCurrentWordInfo(Eng))>>

----------------------------------------------------------------------------
(* C17: in every reachable state, setViewMode(m) with m the current mode   *)
(* changes no state and delivers nothing; setViewMode('paragraph') while   *)
(* playing cancels the pending continuation, sets the status to paused and *)
(* delivers status-change("paused") first, and after it changes viewMode   *)
(* and delivers view-mode-change('paragraph'); every other switch changes  *)
(* viewMode alone and delivers the one view-mode-change.                   *)
C17_ViewModeSwitching ==
    \A m \in ViewModes :
        LET r == setViewMode(Eng, m)
        IN  IF m = viewMode THEN r = Eng
            ELSE IF m = "paragraph" /\ status = "playing"
                 THEN r = [Eng EXCEPT
                             !.status = "paused",
                             !.timerId = NoTimer,
                             !.pending = {},
                             !.viewMode = "paragraph",
                             !.events = <<StatusEvent("paused"),
                                          ViewModeEvent("paragraph")>>]
            ELSE r = [Eng EXCEPT !.viewMode = m,
                                 !.events = <<ViewModeEvent(m)>>]

(* setViewMode('paragraph') has stopped a running playback. *)
C17_Witness ==
    /\ lastOp = "setViewMode"
    /\ viewMode = "paragraph"
    /\ status = "paused"
    /\ pending = {}
    /\ events = <<StatusEvent("paused"), ViewModeEvent("paragraph")>>

----------------------------------------------------------------------------
(* The results of every navigation call that can be made on s. *)
NavigationResults(s) ==
    {nextWord(s), prevWord(s), restartParagraph(s), nextChapter(s), prevChapter(s)}
        \cup {goToChapter(s, i) : i \in ChapterArgs}
        \cup {setPosition(s, pos) : pos \in PosArgs}

(* C18: in every reachable state without a book, each of nextWord,         *)
(* prevWord, restartParagraph, goToChapter(i), nextChapter, prevChapter    *)
(* and setPosition(pos) leaves status, position, wpm and viewMode          *)
(* unchanged and delivers no notification.                                 *)
C18_NoBookNavigationIsNoOp ==
    ~book.loaded
        => \A r \in NavigationResults(Eng) :
              /\ r.status = status
              /\ r.position = position
              /\ r.wpm = wpm
              /\ r.viewMode = viewMode
              /\ r.events = <<>>

----------------------------------------------------------------------------
(* C19: no engine operation has raised an error, in any reachable state. *)
C19_NoThrowingPaths == ~threw

----------------------------------------------------------------------------
(* clampPosition on its own: any book, any saved position. *)

ClampArgs == {Pos(c, p, w) : c \in -1 .. MaxChapters + 1,
                             p \in ParagraphArgs \cup {4},
                             w \in WordArgs \cup {3}}

ClampInit ==
    /\ status = "idle"
    /\ position = ZeroPos
    /\ wpm = DEFAULT_WPM
    /\ book = NoBook
    /\ viewMode = "rsvp"
    /\ timerId = NoTimer
    /\ pending = {}
    /\ events = <<>>
    /\ threw = FALSE
    /\ lastOp = "new"
    /\ pauseRun = NoPauseRun
    /\ clampBook \in Books
    /\ clampPos \in ClampArgs
    /\ clampOut = [done |-> FALSE, threw |-> FALSE, position |-> ZeroPos]
    /\ listeners = NoListeners
    /\ dispatch = NoDispatch
    /\ wordRanks = NoWordlist
    /\ delayWord = <<>>
    /\ delayWpm = DEFAULT_WPM
    /\ delaySettings = DEFAULT_TIMING_SETTINGS
    /\ delayOut = NoDelay
    /\ LaterInit

ClampPosition ==
    /\ ~clampOut.done
    /\ clampOut' = [done |-> TRUE] @@ clampPosition(clampBook, clampPos)
    /\ UNCHANGED <<clampBook, clampPos, lastOp, pauseRun>>
    /\ UNCHANGED <<engineVars, listenerVars, timingVars, laterVars>>

ClampNext == ClampPosition

ClampSpec == ClampInit /\ [][ClampNext]_vars

----------------------------------------------------------------------------
(* C10, as claimed: for every book and every saved position, clampPosition *)
(* completes without error and returns a position valid for the book.      *)
C10_ClampAlwaysValid ==
    clampOut.done => ~clampOut.threw /\ IsValid(clampBook, clampOut.position)

(* C10, amended: for every book with at least one chapter and every saved  *)
(* position, clampPosition completes without error and returns a position  *)
(* whose chapterIndex is in range, whose paragraphIndex is in range (0 if  *)
(* the chapter has no paragraph) and whose wordIndex is in range (0 if     *)
(* there is no paragraph or it has no word); the result is valid for every *)
(* well-formed book.  For a book without chapters it raises a TypeError.   *)
C10_ClampResult ==
    clampOut.done
        => LET b == clampBook
               c == clampOut.position.chapterIndex
               p == clampOut.position.paragraphIndex
               w == clampOut.position.wordIndex
           IN  IF NumChapters(b) = 0 THEN clampOut.threw
               ELSE /\ ~clampOut.threw
                    /\ HasChapter(b, c)
                    /\ IF NumParagraphs(b, c) = 0 THEN p = 0 /\ w = 0
                       ELSE /\ HasParagraph(b, c, p)
                            /\ IF NumWords(b, c, p) = 0 THEN w = 0
                               ELSE HasWord(b, c, p, w)
                    /\ WellFormed(b) => IsValid(b, clampOut.position)

(* A saved position past the end of a well-formed book has been clamped. *)
C10_Witness ==
    /\ clampOut.done
    /\ WellFormed(clampBook)
    /\ clampPos.chapterIndex > NumChapters(clampBook) - 1
    /\ clampPos.wordIndex > 2
    /\ IsValid(clampBook, clampOut.position)

----------------------------------------------------------------------------
(* Subscriptions on their own: attaching, detaching and the dispatch of    *)
(* an event to a channel's listeners, whose callbacks may attach and       *)
(* detach while the dispatch runs.  The engine's own state is left aside.  *)

ListenerInit == Init

(* onWordChange(cb), onStatusChange(cb), onViewModeChange(cb) *)
Subscribe(ch, cb) ==
    /\ dispatch.phase # "running"
    /\ listeners' = [listeners EXCEPT ![ch] = SetAdd(@, cb)]
    /\ dispatch' = NoDispatch
    /\ UNCHANGED <<engineVars, lastOp, pauseRun, clampVars, timingVars, laterVars>>

(* the function returned by onWordChange(cb), ..., called between events *)
Unsubscribe(ch, cb) ==
    /\ dispatch.phase # "running"
    /\ SetHas(listeners[ch], cb)
    /\ listeners' = [listeners EXCEPT ![ch] = Compact(SetDelete(@, cb))]
    /\ dispatch' = NoDispatch
    /\ UNCHANGED <<engineVars, lastOp, pauseRun, clampVars, timingVars, laterVars>>

(* notifyWordChange(), setStatus() or setViewMode() reaches its forEach *)
Dispatch(ch) ==
    /\ dispatch.phase # "running"
    /\ dispatch' = [NoDispatch EXCEPT !.phase = "running",
                                      !.channel = ch,
                                      !.snapshot = listeners[ch],
                                      !.before = Members(listeners[ch])]
    /\ UNCHANGED <<listeners, engineVars, lastOp, pauseRun, clampVars, timingVars, laterVars>>

(* forEach invokes the next callback, which runs with effect e *)
Invoke(e) ==
    /\ dispatch.phase = "running"
    /\ Len(dispatch.invoked) < MaxInvocations
    /\ LET ch == dispatch.channel
           n == forEachNext(listeners[ch], dispatch.snapshot, dispatch.index)
           cb == n.callback
           own == e.channel = ch
           ran == InvokedCallbacks(dispatch) \cup {cb}
       IN  /\ n.index # 0
           /\ e.kind = "detach" => SetHas(listeners[e.channel], e.callback)
           /\ listeners' =
                 IF e.kind = "attach"
                    THEN [listeners EXCEPT ![e.channel] = SetAdd(@, e.callback)]
                 ELSE IF e.kind = "detach"
                    THEN [listeners EXCEPT ![e.channel] =
                             IF own THEN SetDelete(@, e.callback)
                             ELSE Compact(SetDelete(@, e.callback))]
                 ELSE listeners
           /\ dispatch' =
                 [dispatch EXCEPT
                    !.index = n.index,
                    !.invoked = Append(@, [callback |-> cb,
                                           attached |-> SetHas(listeners[ch], cb)]),
                    !.detached =
                        IF e.kind = "detach" /\ own
                        THEN @ \cup ({e.callback} \cap dispatch.before) ELSE @,
                    !.cutOff =
                        IF e.kind = "detach" /\ own
                        THEN @ \cup (({e.callback} \cap dispatch.before) \ ran) ELSE @,
                    !.attachedDuring =
                        IF e.kind = "attach" /\ own /\ ~SetHas(listeners[ch], e.callback)
                        THEN @ \cup {e.callback} ELSE @]
    /\ UNCHANGED <<engineVars, lastOp, pauseRun, clampVars, timingVars, laterVars>>

(* forEach has no entry left: the dispatching call returns *)
Return ==
    /\ dispatch.phase = "running"
    /\ forEachNext(listeners[dispatch.channel], dispatch.snapshot, dispatch.index).index = 0
    /\ dispatch' = [dispatch EXCEPT !.phase = "done"]
    /\ listeners' = [listeners EXCEPT ![dispatch.channel] = Compact(@)]
    /\ UNCHANGED <<engineVars, lastOp, pauseRun, clampVars, timingVars, laterVars>>

ListenerNext ==
    \/ \E ch \in Channels, cb \in Callbacks : Subscribe(ch, cb)
    \/ \E ch \in Channels, cb \in Callbacks : Unsubscribe(ch, cb)
    \/ \E ch \in Channels : Dispatch(ch)
    \/ \E e \in Effects : Invoke(e)
    \/ Return

ListenerSpec == ListenerInit /\ [][ListenerNext]_vars

----------------------------------------------------------------------------
(* C15 as stated: on every channel, no callback is invoked once its        *)
(* detachment handle has been called, and when the dispatching call        *)
(* returns every callback that was attached when the event began has been  *)
(* invoked exactly once for it.                                            *)
C15_DeliveredToAllAttachedBefore ==
    /\ \A i \in DOMAIN dispatch.invoked : dispatch.invoked[i].attached
    /\ dispatch.phase = "done"
          => \A cb \in dispatch.before : TimesInvoked(dispatch, cb) = 1

(* C15, amended: on every channel, no callback is invoked once its         *)
(* detachment handle has been called, and when the dispatching call        *)
(* returns every callback that was attached when the event began and was   *)
(* not detached while it was dispatched has been invoked exactly once.     *)
C15_DeliveredToAllStillAttached ==
    /\ \A i \in DOMAIN dispatch.invoked : dispatch.invoked[i].attached
    /\ dispatch.phase = "done"
          => \A cb \in dispatch.before \ dispatch.detached :
                TimesInvoked(dispatch, cb) = 1

(* A dispatch has returned after one of its listeners was detached and    *)
(* another, which stayed attached, was invoked.                            *)
C15_Witness ==
    /\ dispatch.phase = "done"
    /\ dispatch.detached # {}
    /\ \E cb \in dispatch.before \ dispatch.detached : TimesInvoked(dispatch, cb) = 1

----------------------------------------------------------------------------
(* C16 as stated: a callback that was attached when the event began and    *)
(* was detached by a callback of the same channel before its turn has      *)
(* still been invoked for the event when the dispatching call returns.     *)
C16_DetachedStillInvoked ==
    dispatch.phase = "done"
        => \A cb \in dispatch.cutOff : TimesInvoked(dispatch, cb) >= 1

(* C16, amended: such a callback has not been invoked for the event when   *)
(* the dispatching call returns, unless a callback attached it again       *)
(* while the event was dispatched.                                         *)
C16_DetachedNotInvoked ==
    dispatch.phase = "done"
        => \A cb \in dispatch.cutOff :
              TimesInvoked(dispatch, cb) >= 1 => cb \in dispatch.attachedDuring

(* A dispatch has returned without invoking a listener that an earlier    *)
(* one detached.                                                           *)
C16_Witness ==
    /\ dispatch.phase = "done"
    /\ \E cb \in dispatch.cutOff :
          /\ TimesInvoked(dispatch, cb) = 0
          /\ cb \notin dispatch.attachedDuring
    /\ Len(dispatch.invoked) >= 1

----------------------------------------------------------------------------
(* calculateTotalDelay on its own: any word, speed, settings and wordlist. *)

TimingWords ==
    { <<>>,
      <<"t", "h", "e">>,
      <<"w", "o", "r", "d", ",">>,
      <<"T", "h", "e", "n", ";">>,
      <<"e", "x", "t", "r", "a", "o", "r", "d", "i", "n", "a", "r", "y", ".">>,
      <<"e", "-", "m", "a", "i", "l">>,
      <<"w", "e", "l", "l", "-">>,
      <<"---">>,
      <<"1", "2", "3", "4", "5", "6", "7", "!">>,
      <<"w", "i", "n", "d", "o", "w", "?">>,
      <<"i", "t", "'", "s", ":">>,
      <<"r", "h", "y", "t", "h", "m">>,
      <<"m", "a", "i", "l">> }

TimingWpms == {MIN_WPM, DEFAULT_WPM, 325, MAX_WPM}

TimingSettings ==
    [lengthDelayEnabled : BOOLEAN,
     lengthDelayFactor : {Rat(0, 1), Rat(1, 20), Rat(1, 10), Rat(1, 2)},
     frequencyDelayEnabled : BOOLEAN,
     frequencyDelayFactor : {Rat(0, 1), Rat(3, 10), Rat(1, 1)}]

TimingInit ==
    /\ status = "idle"
    /\ position = ZeroPos
    /\ wpm = DEFAULT_WPM
    /\ book = NoBook
    /\ viewMode = "rsvp"
    /\ timerId = NoTimer
    /\ pending = {}
    /\ events = <<>>
    /\ threw = FALSE
    /\ lastOp = "new"
    /\ pauseRun = NoPauseRun
    /\ clampBook = NoBook
    /\ clampPos = ZeroPos
    /\ clampOut = [done |-> FALSE, threw |-> FALSE, position |-> ZeroPos]
    /\ listeners = NoListeners
    /\ dispatch = NoDispatch
    /\ delayWord \in TimingWords
    /\ delayWpm \in TimingWpms
    /\ delaySettings \in TimingSettings
    /\ wordRanks \in Wordlists
    /\ delayOut = NoDelay
    /\ LaterInit

CalculateTotalDelay ==
    /\ ~delayOut.done
    /\ delayOut' = [done |-> TRUE,
                    value |-> calculateTotalDelay(wordRanks, delayWord, delayWpm,
                                                  delaySettings)]
    /\ UNCHANGED <<delayWord, delayWpm, delaySettings, wordRanks>>
    /\ UNCHANGED <<engineVars, lastOp, pauseRun, clampVars, listenerVars, laterVars>>

TimingNext == CalculateTotalDelay

TimingSpec == TimingInit /\ [][TimingNext]_vars

(* The components of the delay that apply to a word: it ends in a          *)
(* punctuation character of the table; length delay is enabled and the     *)
(* word has more than five alphanumeric characters; frequency delay is     *)
(* enabled and the word's bucket multiplier is not zero.                   *)
PunctuationApplies(word) == LastChar(word) \in DOMAIN PUNCTUATION_MULTIPLIERS
LengthApplies(word, settings) ==
    settings.lengthDelayEnabled /\ Len(SelectSeq(word, IsAlphanumeric)) > 5
FrequencyApplies(wl, word, settings) ==
    settings.frequencyDelayEnabled /\ RatLess(Zero, getWordBucketMultiplier(wl, word))

----------------------------------------------------------------------------
(* The punctuation multiplier of a last character, as C21 lists it. *)
ListedMultiplier(ch) ==
    IF ch \in {",", ";", ":"} THEN Rat(3, 4)
    ELSE IF ch \in {".", "!", "?"} THEN Rat(3, 2)
    ELSE IF ch = "---" THEN Rat(1, 1)
    ELSE IF ch = "-" THEN Rat(1, 4)
    ELSE Zero

(* The optional parts of the delay computed for the current arguments. *)
LengthPart ==
    IF delaySettings.lengthDelayEnabled
    THEN calculateLengthDelay(delayWord, calculateBaseInterval(delayWpm),
                              delaySettings.lengthDelayFactor)
    ELSE Zero
FrequencyPart ==
    IF delaySettings.frequencyDelayEnabled
    THEN calculateFrequencyDelay(wordRanks, delayWord, calculateBaseInterval(delayWpm),
                                 delaySettings.frequencyDelayFactor)
    ELSE Zero

(* C21: whatever the settings, the delay computed for a word is the base   *)
(* interval, plus base x m for the listed multiplier m of the word's last  *)
(* character, plus the optional parts; with both optional delays disabled  *)
(* it is base x (1 + m), and 350 ms for "word," at 300 wpm.                *)
C21_PunctuationAlwaysApplied ==
    delayOut.done
        => LET base == calculateBaseInterval(delayWpm)
               m == ListedMultiplier(LastChar(delayWord))
           IN  /\ delayOut.value =
                     RatAdd(RatAdd(RatAdd(base, RatMul(base, m)), LengthPart),
                            FrequencyPart)
               /\ (~delaySettings.lengthDelayEnabled
                     /\ ~delaySettings.frequencyDelayEnabled)
                     => delayOut.value = RatMul(base, RatAdd(Rat(1, 1), m))
               /\ (/\ delayWord = <<"w", "o", "r", "d", ",">>
                   /\ delayWpm = 300
                   /\ delaySettings = DEFAULT_TIMING_SETTINGS)
                     => delayOut.value = Rat(350, 1)

(* The delay of "word," at 300 wpm has been computed with the defaults. *)
C21_Witness ==
    /\ delayOut.done
    /\ delayWord = <<"w", "o", "r", "d", ",">>
    /\ delayWpm = 300
    /\ delaySettings = DEFAULT_TIMING_SETTINGS
    /\ delayOut.value = Rat(350, 1)

----------------------------------------------------------------------------
(* C22: the length part of the delay computed for a word is                *)
(* max(0, n - 5) x lengthDelayFactor x base when length delay is enabled,  *)
(* n being the number of alphanumeric characters of the word, and 0 when   *)
(* it is disabled, whatever the factor; "extraordinary." at 300 wpm with   *)
(* factor 0.1 enabled and frequency delay disabled gives 660 ms.           *)
C22_LengthDelay ==
    delayOut.done
        => LET base == calculateBaseInterval(delayWpm)
               n == Cardinality({i \in DOMAIN delayWord : IsAlphanumeric(delayWord[i])})
               expected == IF delaySettings.lengthDelayEnabled
                           THEN RatMul(RatMul(Rat(Max(0, n - 5), 1),
                                              delaySettings.lengthDelayFactor), base)
                           ELSE Zero
           IN  /\ delayOut.value =
                     RatAdd(RatAdd(RatAdd(base, calculatePunctuationDelay(delayWord, base)),
                                   expected),
                            FrequencyPart)
               /\ (/\ delayWord = <<"e", "x", "t", "r", "a", "o", "r", "d", "i", "n",
                                    "a", "r", "y", ".">>
                   /\ delayWpm = 300
                   /\ delaySettings.lengthDelayEnabled
                   /\ delaySettings.lengthDelayFactor = Rat(1, 10)
                   /\ ~delaySettings.frequencyDelayEnabled)
                     => delayOut.value = Rat(660, 1)

(* The delay of "extraordinary." at 300 wpm has been computed with length *)
(* delay enabled at factor 0.1.                                            *)
C22_Witness ==
    /\ delayOut.done
    /\ Len(delayWord) = 14
    /\ delayWpm = 300
    /\ delaySettings.lengthDelayEnabled
    /\ delaySettings.lengthDelayFactor = Rat(1, 10)
    /\ ~delaySettings.frequencyDelayEnabled
    /\ delayOut.value = Rat(660, 1)

----------------------------------------------------------------------------
(* The word reduced to its letters a-z after lower-casing. *)
Normalized(word) ==
    SelectSeq([i \in DOMAIN word |-> toLowerCase(word[i])], LAMBDA ch : ch \in LowerCase)

(* The bucket multiplier of a word, as C23 states it. *)
StatedMultiplier(wl, word) ==
    IF ~wl.loaded \/ DOMAIN wl.ranks = {} \/ Normalized(word) = <<>> THEN Zero
    ELSE IF Normalized(word) \notin DOMAIN wl.ranks THEN Rat(1, 1)
    ELSE LET rank == wl.ranks[Normalized(word)]
         IN  IF rank <= 1000 THEN Zero
             ELSE IF rank <= 3000 THEN Rat(1, 4)
             ELSE IF rank <= 5000 THEN Rat(1, 2)
             ELSE IF rank <= 10000 THEN Rat(3, 4)
             ELSE Rat(1, 1)

(* C23: the frequency part of the delay computed for a word is             *)
(* multiplier x frequencyDelayFactor x base when frequency delay is        *)
(* enabled and 0 when it is disabled; the bucket multiplier of every word  *)
(* is the stated one for the word list in use and lies in [0, 1].          *)
C23_FrequencyDelay ==
    /\ \A word \in TimingWords :
          /\ getWordBucketMultiplier(wordRanks, word) = StatedMultiplier(wordRanks, word)
          /\ RatLeq(Zero, getWordBucketMultiplier(wordRanks, word))
          /\ RatLeq(getWordBucketMultiplier(wordRanks, word), Rat(1, 1))
    /\ delayOut.done
          => LET base == calculateBaseInterval(delayWpm)
                 expected == IF delaySettings.frequencyDelayEnabled
                             THEN RatMul(RatMul(StatedMultiplier(wordRanks, delayWord),
                                                delaySettings.frequencyDelayFactor), base)
                             ELSE Zero
             IN  delayOut.value =
                    RatAdd(RatAdd(RatAdd(base, calculatePunctuationDelay(delayWord, base)),
                                  LengthPart),
                           expected)

(* The delay of a word of rank 10000 has been computed with frequency     *)
(* delay enabled.                                                          *)
C23_Witness ==
    /\ delayOut.done
    /\ delaySettings.frequencyDelayEnabled
    /\ delaySettings.frequencyDelayFactor = Rat(1, 1)
    /\ ~delaySettings.lengthDelayEnabled
    /\ getWordBucketMultiplier(wordRanks, delayWord) = Rat(3, 4)
    /\ delayOut.value = RatMul(calculateBaseInterval(delayWpm), Rat(13, 4))

----------------------------------------------------------------------------
(* C26: getCurrentWordInfo returns absent exactly when no book is loaded   *)
(* or the position does not resolve to an existing chapter, paragraph and  *)
(* word; otherwise it returns the word at the position, a copy of the      *)
(* position, the paragraph's word count, the chapter's paragraph count,    *)
(* the book's chapter count and the chapter's title.  It is a query: its   *)
(* result is the only thing it produces.                                   *)
C26_CurrentWordInfo ==
    LET r == getCurrentWordInfo(Eng)
        c == position.chapterIndex
        p == position.paragraphIndex
        w == position.wordIndex
    IN  /\ r.present <=> (book.loaded /\ IsValid(book, position))
        /\ ~r.present => r = NoInfo
        /\ r.present =>
              /\ r.word = book.chapters[c + 1].paragraphs[p + 1][w + 1]
              /\ r.position = position
              /\ r.totalWordsInParagraph = Len(book.chapters[c + 1].paragraphs[p + 1])
              /\ r.totalParagraphsInChapter = Len(book.chapters[c + 1].paragraphs)
              /\ r.totalChapters = Len(book.chapters)
              /\ r.chapterTitle = book.chapters[c + 1].title

C26_Witness ==
    /\ book.loaded
    /\ ~IsValid(book, position)
    /\ HasChapter(book, position.chapterIndex)
    /\ lastOp # "loadBook"

(* C28: restartParagraph with a book loaded sets wordIndex to 0, leaves    *)
(* chapterIndex, paragraphIndex, status, wpm and viewMode unchanged, and   *)
(* delivers exactly one word-change notification, also when wordIndex was  *)
(* already 0.                                                              *)
C28_RestartParagraph ==
    book.loaded =>
        LET r == restartParagraph(Eng)
        IN  /\ r.position = [position EXCEPT !.wordIndex = 0]
            /\ r.status = status
            /\ r.wpm = wpm
            /\ r.viewMode = viewMode
            /\ Len(r.events) = 1
            /\ r.events[1].type = "word"

C28_Witness ==
    /\ lastOp = "restartParagraph"
    /\ book.loaded
    /\ position.wordIndex = 0
    /\ position.paragraphIndex > 0
    /\ Len(events) = 1
    /\ events[1].type = "word"
    /\ events[1].info.present

----------------------------------------------------------------------------
(* calculateORP on its own: any word over a few letters and punctuation    *)
(* characters, and the words of the documented examples.                   *)

OrpAlphabet == {"a", "!", "-", "---", "U+201D"}

OrpWords ==
    SeqsUpTo(OrpAlphabet, MaxWordLength)
        \cup { <<"c", "a", "t">>,
               <<"h", "e", "l", "l", "o">>,
               <<"w", "o", "n", "d", "e", "r", "f", "u", "l">>,
               <<"w", "o", "n", "d", "e", "r", "f", "u", "l", ".", "\"">> }

(* The engine as constructed and the parts modelled above not run. *)
EarlierInit ==
    /\ status = "idle"
    /\ position = ZeroPos
    /\ wpm = DEFAULT_WPM
    /\ book = NoBook
    /\ viewMode = "rsvp"
    /\ timerId = NoTimer
    /\ pending = {}
    /\ events = <<>>
    /\ threw = FALSE
    /\ lastOp = "new"
    /\ pauseRun = NoPauseRun
    /\ clampBook = NoBook
    /\ clampPos = ZeroPos
    /\ clampOut = [done |-> FALSE, threw |-> FALSE, position |-> ZeroPos]
    /\ listeners = NoListeners
    /\ dispatch = NoDispatch
    /\ wordRanks = NoWordlist
    /\ delayWord = <<>>
    /\ delayWpm = DEFAULT_WPM
    /\ delaySettings = DEFAULT_TIMING_SETTINGS
    /\ delayOut = NoDelay

OrpInit ==
    /\ EarlierInit
    /\ orpWord \in OrpWords
    /\ orpOut = NoOrp
    /\ ScheduleIdle
    /\ AppIdle
    /\ subscriber = NoSubscriber

CalculateORP ==
    /\ ~orpOut.done
    /\ orpOut' = [done |-> TRUE, value |-> calculateORP(orpWord)]
    /\ UNCHANGED <<orpWord, engineVars, lastOp, pauseRun, clampVars, listenerVars,
                   timingVars, scheduleVars, serverVars, appVars, subscriber>>

OrpNext == CalculateORP

OrpSpec == OrpInit /\ [][OrpNext]_vars

(* The trailing characters C24 lists, and the offset it states. *)
StatedTrailing == {".", ",", "!", "?", ";", ":", "'", "\"", "---", "-"}

RECURSIVE StatedLength(_, _)
StatedLength(word, len) ==
    IF len > 0 /\ word[len] \in StatedTrailing
    THEN StatedLength(word, len - 1)
    ELSE len

StatedOffset(word) ==
    LET L == StatedLength(word, Len(word))
    IN  IF L <= 1 THEN 0 ELSE IF L <= 3 THEN 1 ELSE (L \div 2) - 1

(* C24: the recognition offset computed for a word is 0 if L <= 1, 1 if    *)
(* L <= 3 and floor(L/2) - 1 otherwise, L being the length of the word     *)
(* without its trailing characters from . , ! ? ; : ' " em dash hyphen.    *)
C24_RecognitionPoint ==
    orpOut.done => orpOut.value = StatedOffset(orpWord)

----------------------------------------------------------------------------
(* Playback with delays: the engine on ScheduleBook with the wordlist      *)
(* loaded, the getter installed or not, and the stored settings changing.  *)

ScheduleWordlist ==
    CHOOSE wl \in Wordlists : wl.loaded /\ DOMAIN wl.ranks # {}

ScheduleSettings ==
    { DEFAULT_TIMING_SETTINGS,
      [lengthDelayEnabled |-> TRUE, lengthDelayFactor |-> Rat(1, 10),
       frequencyDelayEnabled |-> FALSE, frequencyDelayFactor |-> Rat(3, 10)],
      [lengthDelayEnabled |-> TRUE, lengthDelayFactor |-> Rat(1, 2),
       frequencyDelayEnabled |-> TRUE, frequencyDelayFactor |-> Rat(1, 1)] }

TimedEng == [delays |-> armed] @@ Eng

ScheduleInit ==
    /\ EarlierInit
    /\ OrpIdle
    /\ ScheduleIdle
    /\ AppIdle
    /\ subscriber = NoSubscriber

ScheduleRest ==
    <<clampVars, listenerVars, timingVars, orpVars, serverVars, appVars, subscriber>>

ScheduleCall(op, r) ==
    /\ Becomes(r)
    /\ armed' = [id \in r.pending |-> r.delays[id]]
    /\ lastOp' = op
    /\ pauseRun' = NoPauseRun
    /\ UNCHANGED <<timingSettingsGetter, appSettings, ScheduleRest>>

ScheduleLoadBook == ScheduleCall("loadBook", loadBook(TimedEng, ScheduleBook))

SchedulePlay ==
    /\ CanArm
    /\ ScheduleCall("play", playTimed(TimedEng, ScheduleWordlist,
                                      timingSettingsGetter, appSettings))

SchedulePause == ScheduleCall("pause", pause(TimedEng))

ScheduleNextWord == ScheduleCall("nextWord", nextWord(TimedEng))

ScheduleSetWPM(n) == ScheduleCall("setWPM", setWPM(TimedEng, n))

ScheduleTimerFires(id) ==
    /\ id \in pending
    /\ CanArm
    /\ ScheduleCall("timer",
                    timerCallbackTimed([TimedEng EXCEPT !.pending = @ \ {id}],
                                       ScheduleWordlist, timingSettingsGetter,
                                       appSettings))

SetTimingSettingsGetter ==
    /\ ~timingSettingsGetter
    /\ timingSettingsGetter' = TRUE
    /\ UNCHANGED <<engineVars, lastOp, pauseRun, appSettings, armed, ScheduleRest>>

SetTimingSetting(st) ==
    /\ appSettings' = st
    /\ UNCHANGED <<engineVars, lastOp, pauseRun, timingSettingsGetter, armed,
                   ScheduleRest>>

ScheduleNext ==
    \/ ScheduleLoadBook
    \/ SchedulePlay
    \/ SchedulePause
    \/ ScheduleNextWord
    \/ \E n \in WpmValues : ScheduleSetWPM(n)
    \/ \E id \in 1 .. MaxTimers : ScheduleTimerFires(id)
    \/ SetTimingSettingsGetter
    \/ \E st \in ScheduleSettings : SetTimingSetting(st)

ScheduleSpec == ScheduleInit /\ [][ScheduleNext]_vars

(* The delay of the timers a call armed: those pending after it that were  *)
(* not pending before it, computed from the word, wpm and settings of now. *)
ArmedFromNow(r, before) ==
    \A id \in r.pending \ before :
        r.delays[id].delay =
            calculateTotalDelay(ScheduleWordlist, CurrentText(r), r.wpm,
                                IF timingSettingsGetter THEN appSettings
                                ELSE DEFAULT_TIMING_SETTINGS)

(* What the calls that arm a timer, and setWPM, do from the present state. *)
DelaysAreLive ==
    /\ ArmedFromNow(playTimed(TimedEng, ScheduleWordlist, timingSettingsGetter,
                              appSettings), pending)
    /\ \A id \in pending :
          ArmedFromNow(timerCallbackTimed([TimedEng EXCEPT !.pending = @ \ {id}],
                                          ScheduleWordlist, timingSettingsGetter,
                                          appSettings),
                       pending \ {id})
    /\ \A n \in WpmValues :
          LET r == setWPM(TimedEng, n)
          IN  r.pending = pending /\ r.timerId = timerId /\ r.delays = armed
    /\ \A id \in pending :
          armed[id].delay = calculateTotalDelay(ScheduleWordlist, armed[id].word,
                                                armed[id].wpm, armed[id].settings)

(* C25: the delay of each scheduled continuation is computed, when it is   *)
(* scheduled, from the current word, the engine's current wpm and the      *)
(* settings the provider returns at that moment; a change of wpm or of the *)
(* settings while a continuation is pending neither alters nor re-arms it, *)
(* and is used for the next word scheduled.                                *)
C25_LiveSettings ==
    /\ []DelaysAreLive
    /\ [][(wpm' # wpm \/ appSettings' # appSettings)
            => UNCHANGED <<pending, timerId, armed>>]_vars

(* A timer armed after the wpm and the settings were changed while its     *)
(* predecessor was pending: it carries the new wpm and the new settings.   *)
C25_Witness ==
    /\ lastOp = "timer"
    /\ timerId \in pending
    /\ armed[timerId].wpm = MAX_WPM
    /\ armed[timerId].settings.frequencyDelayEnabled
    /\ armed[timerId].word = Spelling["extraordinary."]

----------------------------------------------------------------------------
(* Uploads: POST /api/books handled for several requests at once, each     *)
(* suspended at the metadata extraction, and positions being saved.        *)

ClientBodies ==
    { Body(0, 1, 1, 5000, TRUE),
      Body(1, 0, 0, MIN_WPM, TRUE),
      Body(0, 0, 0, DEFAULT_WPM, FALSE) }

UploadInit ==
    /\ EarlierInit
    /\ OrpIdle
    /\ ScheduleIdle
    /\ AppIdle
    /\ subscriber = NoSubscriber

OutsideServer ==
    <<engineVars, pauseRun, clampVars, listenerVars, timingVars, orpVars,
      scheduleVars, appVars, subscriber>>

PostBooks(r, hash, filename) ==
    /\ uploads[r].phase = "new"
    /\ LET out == postBooks(rows, hash, filename)
       IN  uploads' = [uploads EXCEPT ![r] = [phase |-> out.phase, hash |-> hash,
                                              filename |-> filename,
                                              response |-> out.response]]
    /\ lastOp' = "postBooks"
    /\ UNCHANGED <<rows, lastSaved, OutsideServer>>

PostBooksContinue(r) ==
    /\ uploads[r].phase = "extracting"
    /\ rows' = addBook(rows, uploads[r].hash, uploads[r].filename)
    /\ uploads' = [uploads EXCEPT ![r].phase = "done",
                                  ![r].response = postBooksAdded(rows', uploads[r].hash)]
    /\ lastOp' = "postBooks"
    /\ UNCHANGED <<lastSaved, OutsideServer>>

PutPosition(hash, body) ==
    /\ rows' = putPosition(rows, hash, body)
    /\ lastSaved' = IF putPositionAccepts(rows, hash, body)
                    THEN [lastSaved EXCEPT ![hash] =
                             SavedPosition(body.chapterIndex, body.paragraphIndex,
                                           body.wordIndex, body.wpm)]
                    ELSE lastSaved
    /\ lastOp' = "putPosition"
    /\ UNCHANGED <<uploads, OutsideServer>>

UploadNext ==
    \/ \E r \in 1 .. MaxUploads, hash \in Hashes, filename \in Filenames :
          PostBooks(r, hash, filename)
    \/ \E r \in 1 .. MaxUploads : PostBooksContinue(r)
    \/ \E hash \in Hashes, body \in ClientBodies : PutPosition(hash, body)

UploadSpec == UploadInit /\ [][UploadNext]_vars

(* C30: after any interleaving of upload requests, concurrent uploads of   *)
(* the same content included, the table holds at most one row per hash; an *)
(* upload whose hash is recorded when the request is handled returns the   *)
(* existing record with alreadyExists = true and leaves the table, and so  *)
(* the saved position, as it is; the insertion that ends an upload leaves  *)
(* the saved position of a recorded hash as it is, too.                    *)
C30_DuplicateDetection ==
    /\ \A i, j \in DOMAIN rows : rows[i].hash = rows[j].hash => i = j
    /\ \A hash \in Hashes, filename \in Filenames :
          getBook(rows, hash) # NoRow =>
              LET out == postBooks(rows, hash, filename)
              IN  /\ out.phase = "done"
                  /\ out.response.alreadyExists
                  /\ out.response.id = getBook(rows, hash).id
                  /\ out.response.hash = hash
                  /\ out.response.position = getPosition(rows, hash)
    /\ \A r \in 1 .. MaxUploads :
          (uploads[r].phase = "extracting" /\ getBook(rows, uploads[r].hash) # NoRow) =>
              LET after == addBook(rows, uploads[r].hash, uploads[r].filename)
              IN  /\ getPosition(after, uploads[r].hash) = getPosition(rows, uploads[r].hash)
                  /\ Len(after) = Len(rows)

(* Two uploads of the same content that both passed the lookup before      *)
(* either inserted, both finished, and a position saved in between.        *)
C30_Witness ==
    /\ \E r1, r2 \in 1 .. MaxUploads :
          /\ r1 # r2
          /\ uploads[r1].phase = "done" /\ uploads[r2].phase = "done"
          /\ uploads[r1].hash = uploads[r2].hash
          /\ uploads[r1].response.status = 201 /\ uploads[r2].response.status = 201
          /\ lastSaved[uploads[r1].hash].present
          /\ getPosition(rows, uploads[r1].hash) = lastSaved[uploads[r1].hash]

----------------------------------------------------------------------------
(* The application with its server: a library that holds one book, as      *)
(* after an upload, and the application just started (init has called      *)
(* showLibrary, whose request for the list is on its way).                 *)

SliderValues == {MIN_WPM, MAX_WPM}

(* The speeds from which the keyboard adjustment is followed. *)
AdjustWindow == {MIN_WPM, MAX_WPM - WPM_STEP, MAX_WPM}

AppInit ==
    /\ EarlierInit
    /\ OrpIdle
    /\ timingSettingsGetter = TRUE
    /\ appSettings = DEFAULT_TIMING_SETTINGS
    /\ armed = NoTimersArmed
    /\ rows = <<NewRow(1, "h1", "a.epub")>>
    /\ uploads = [r \in 1 .. MaxUploads |-> NoUpload]
    /\ lastSaved = NothingSaved
    /\ libraryBooks = <<>>
    /\ cardsShown = FALSE
    /\ currentBookHash = NoHash
    /\ putRequest = NoRequest
    /\ getRequest = TRUE
    /\ subscriber = NoSubscriber

OutsideApp ==
    <<clampVars, listenerVars, timingVars, orpVars, scheduleVars, uploads, subscriber>>

AppCall(op, r) ==
    /\ Becomes(r)
    /\ lastOp' = op
    /\ pauseRun' = NoPauseRun

(* The list of books arrives: GET /api/books handled, Library.loadBooks. *)
LibraryBooksArrive ==
    /\ getRequest
    /\ getRequest' = FALSE
    /\ libraryBooks' = listBooks(rows)
    /\ cardsShown' = (currentBookHash = NoHash)
    /\ lastOp' = "getBooks"
    /\ UNCHANGED <<engineVars, pauseRun, rows, lastSaved, currentBookHash,
                   putRequest, OutsideApp>>

(* Typing in the search field renders the list the library holds. *)
SearchInput ==
    /\ currentBookHash = NoHash
    /\ ~cardsShown
    /\ cardsShown' = TRUE
    /\ lastOp' = "search"
    /\ UNCHANGED <<engineVars, pauseRun, rows, lastSaved, libraryBooks,
                   currentBookHash, putRequest, getRequest, OutsideApp>>

OpenBook(hash) ==
    /\ currentBookHash = NoHash
    /\ cardsShown
    /\ \E i \in DOMAIN libraryBooks : libraryBooks[i].hash = hash
    /\ getBook(rows, hash) # NoRow
    /\ LET bookInfo == libraryBooks[CHOOSE i \in DOMAIN libraryBooks :
                                       /\ libraryBooks[i].hash = hash
                                       /\ \A j \in 1 .. i - 1 :
                                             libraryBooks[j].hash # hash]
       IN  AppCall("openBook",
                   restorePosition(loadBook(Eng, AppBook), AppBook, bookInfo.position))
    /\ rows' = updateLastRead(rows, hash)
    /\ currentBookHash' = hash
    /\ cardsShown' = FALSE
    /\ UNCHANGED <<lastSaved, libraryBooks, putRequest, getRequest, OutsideApp>>

ReaderNextWord ==
    /\ currentBookHash # NoHash
    /\ AppCall("nextWord", nextWord(Eng))
    /\ UNCHANGED <<serverVars, appVars, clampVars, listenerVars, timingVars,
                   orpVars, scheduleVars, subscriber>>

ChapterSelect(index) ==
    /\ currentBookHash # NoHash
    /\ putRequest = NoRequest
    /\ LET r == goToChapter(Eng, index)
       IN  /\ AppCall("chapterSelect", r)
           /\ putRequest' = savePosition(currentBookHash, r)
    /\ UNCHANGED <<rows, lastSaved, libraryBooks, cardsShown, currentBookHash,
                   getRequest, OutsideApp>>

WpmSlider(n) ==
    /\ currentBookHash # NoHash
    /\ AppCall("wpmSlider", setWPM(Eng, n))
    /\ UNCHANGED <<serverVars, appVars, clampVars, listenerVars, timingVars,
                   orpVars, scheduleVars, subscriber>>

AdjustWPM(delta) ==
    /\ currentBookHash # NoHash
    /\ adjustWPM(Eng, delta).wpm \in AdjustWindow
    /\ AppCall("adjustWPM", adjustWPM(Eng, delta))
    /\ UNCHANGED <<serverVars, appVars, clampVars, listenerVars, timingVars,
                   orpVars, scheduleVars, subscriber>>

ShowLibrary ==
    /\ currentBookHash # NoHash
    /\ putRequest = NoRequest
    /\ ~getRequest
    /\ putRequest' = savePosition(currentBookHash, Eng)
    /\ currentBookHash' = NoHash
    /\ AppCall("showLibrary", pause(Eng))
    /\ cardsShown' = FALSE
    /\ getRequest' = TRUE
    /\ UNCHANGED <<rows, lastSaved, libraryBooks, OutsideApp>>

(* The request savePosition sent reaches PUT /position. *)
PositionArrives ==
    /\ putRequest # NoRequest
    /\ rows' = putPosition(rows, putRequest.hash, putRequest.body)
    /\ lastSaved' = IF putPositionAccepts(rows, putRequest.hash, putRequest.body)
                    THEN [lastSaved EXCEPT ![putRequest.hash] =
                             SavedPosition(putRequest.body.chapterIndex,
                                           putRequest.body.paragraphIndex,
                                           putRequest.body.wordIndex,
                                           putRequest.body.wpm)]
                    ELSE lastSaved
    /\ putRequest' = NoRequest
    /\ lastOp' = "putPosition"
    /\ UNCHANGED <<engineVars, pauseRun, libraryBooks, cardsShown, currentBookHash,
                   getRequest, OutsideApp>>

AppNext ==
    \/ LibraryBooksArrive
    \/ SearchInput
    \/ \E hash \in Hashes : OpenBook(hash)
    \/ ReaderNextWord
    \/ \E index \in 0 .. NumChapters(AppBook) - 1 : ChapterSelect(index)
    \/ \E n \in SliderValues : WpmSlider(n)
    \/ \E delta \in {-WPM_STEP, WPM_STEP} : AdjustWPM(delta)
    \/ ShowLibrary
    \/ PositionArrives

AppSpec == AppInit /\ [][AppNext]_vars

(* The same with PUT /position open to any client of the server. *)
OpenNext ==
    \/ AppNext
    \/ \E hash \in Hashes, body \in ClientBodies : PutPosition(hash, body)

OpenSpec == AppInit /\ [][OpenNext]_vars

(* C27: in the application the engine's wpm lies in [100, 1000] in every   *)
(* reachable state: the slider, adjustWPM and the restore of a persisted   *)
(* wpm in openBook each pass setWPM a value in that range.                 *)
C27_WpmInRange ==
    MIN_WPM <= wpm /\ wpm <= MAX_WPM

(* C29: if the reader's position p and speed w were saved (savePosition,   *)
(* PUT position, DB.updatePosition) and the book, its structure unchanged, *)
(* is opened again, then after openBook the engine's position is p and its *)
(* wpm is w.                                                               *)
C29_ResumeWhereLeftOff ==
    (lastOp = "openBook" /\ lastSaved[currentBookHash].present) =>
        /\ position = Pos(lastSaved[currentBookHash].chapterIndex,
                          lastSaved[currentBookHash].paragraphIndex,
                          lastSaved[currentBookHash].wordIndex)
        /\ wpm = lastSaved[currentBookHash].wpm

(***************************************************************************)
(* Status and timer, position and word, across whole engine calls.         *)
(***************************************************************************)

(* C31: between engine calls, status = playing if and only if exactly one  *)
(* continuation is pending, and in idle, ready and paused none is pending; *)
(* play() at a position that resolves to no word ends with status paused   *)
(* and nothing pending.                                                    *)
C31_StatusTimerCoupling ==
    /\ status = "playing" <=> Cardinality(pending) = 1
    /\ status \in {"idle", "ready", "paused"} => pending = {} /\ timerId = NoTimer
    /\ (status \in {"ready", "paused"} /\ ~getCurrentWordInfo(Eng).present)
          => LET r == play(Eng)
             IN  r.status = "paused" /\ r.pending = {} /\ r.timerId = NoTimer

(* play() was called at a position without a word and ended paused. *)
C31_Witness ==
    /\ lastOp = "play"
    /\ book.loaded
    /\ ~getCurrentWordInfo(Eng).present
    /\ status = "paused"
    /\ pending = {}

(* C32: if the loaded book has at least one chapter, every chapter at      *)
(* least one paragraph and every paragraph at least one word, then after   *)
(* any sequence of engine operations and continuation firings the position *)
(* is valid for the book and getCurrentWordInfo is not absent.             *)
C32_WordAlwaysPresent ==
    (book.loaded /\ WellFormed(book))
        => /\ HasWord(book, position.chapterIndex, position.paragraphIndex,
                      position.wordIndex)
           /\ getCurrentWordInfo(Eng).present
           /\ getCurrentWordInfo(Eng).position = position

(* A continuation has carried a well-formed book into its second chapter. *)
C32_Witness ==
    /\ lastOp = "timer"
    /\ WellFormed(book)
    /\ position.chapterIndex = 1
    /\ getCurrentWordInfo(Eng).present

(* C36: on a well-formed book, from any valid position that is not the     *)
(* last word nextWord followed by prevWord returns to the same position,   *)
(* and from any valid position other than (0,0,0) prevWord followed by     *)
(* nextWord returns to the same position.                                  *)
C36_AdvanceRetreatInverse ==
    (WellFormed(book) /\ IsValid(book, position))
        => /\ ~IsLastWord(book, position)
                => /\ nextWord(Eng).position # position
                   /\ prevWord(nextWord(Eng)).position = position
                   /\ ~prevWord(nextWord(Eng)).threw
           /\ position # ZeroPos
                => /\ prevWord(Eng).position # position
                   /\ nextWord(prevWord(Eng)).position = position

(* nextWord has crossed into the second chapter of a well-formed book, and *)
(* prevWord from there goes back to the last word of the first.            *)
C36_Witness ==
    /\ lastOp = "nextWord"
    /\ WellFormed(book)
    /\ position = Pos(1, 0, 0)
    /\ prevWord(Eng).position = Pos(0, 1, 1)
    /\ nextWord(prevWord(Eng)).position = position

(* The navigation calls other than nextWord, each with every argument. *)
OtherNavigationResults(s) ==
    {prevWord(s), restartParagraph(s), nextChapter(s), prevChapter(s)}
        \cup {goToChapter(s, i) : i \in ChapterArgs}
        \cup {setPosition(s, pos) : pos \in PosArgs}

(* nextWord() has paused playback: the timer is cancelled and "paused" is  *)
(* delivered before the word.                                              *)
NextWordPauses(s) ==
    LET r == nextWord(s)
    IN  /\ r.status = "paused"
        /\ r.timerId = NoTimer
        /\ r.pending = s.pending \ {s.timerId}
        /\ Len(r.events) = 2
        /\ r.events[1] = StatusEvent("paused")
        /\ r.events[2].type = "word"

(* C40 as stated: nextWord, prevWord, restartParagraph, goToChapter,       *)
(* nextChapter, prevChapter and setPosition leave status unchanged in      *)
(* every state, except that nextWord() while playing at the last word of   *)
(* the book sets status to paused, cancels the pending continuation and    *)
(* delivers status-change("paused") before its word-change notification.   *)
C40_NavigationStatus ==
    /\ \A r \in OtherNavigationResults(Eng) : r.status = status
    /\ IF status = "playing" /\ IsLastWord(book, position)
       THEN NextWordPauses(Eng)
       ELSE nextWord(Eng).status = status

(* C40 amended: the exception is nextWord() while playing at any position  *)
(* after which the book has nothing: the last word of the book, or a       *)
(* position in its last paragraph at or past that paragraph's end.         *)
C40_NavigationStatusAtEnd ==
    /\ \A r \in OtherNavigationResults(Eng) : r.status = status
    /\ IF status = "playing" /\ book.loaded /\ NothingAfter(book, position)
       THEN NextWordPauses(Eng)
       ELSE nextWord(Eng).status = status

(* nextWord() at the last word of a well-formed book has paused playback. *)
C40_Witness ==
    /\ lastOp = "nextWord"
    /\ WellFormed(book)
    /\ IsLastWord(book, position)
    /\ status = "paused"
    /\ Len(events) = 2
    /\ events[1] = StatusEvent("paused")
    /\ events[2].type = "word"

RestoredFromClampPos ==
    restorePosition(loadBook(Eng, clampBook), clampBook,
                    SavedPosition(clampPos.chapterIndex, clampPos.paragraphIndex,
                                  clampPos.wordIndex, DEFAULT_WPM))

(* C37: when openBook restores a saved position on a well-formed book, the *)
(* out-of-bounds notice is raised if and only if the saved position is not *)
(* valid for the book; a valid saved position is returned unchanged by     *)
(* clampPosition and becomes the engine's position, an invalid one is      *)
(* replaced by the clamped position, which the engine accepts.             *)
C37_OutOfBoundsNotice ==
    (clampOut.done /\ WellFormed(clampBook))
        => /\ ~clampOut.threw
           /\ positionWasClamped(clampPos, clampOut.position)
                 <=> ~IsValid(clampBook, clampPos)
           /\ IsValid(clampBook, clampPos) => clampOut.position = clampPos
           /\ IsValid(clampBook, clampOut.position)
           /\ RestoredFromClampPos.position = clampOut.position
           /\ RestoredFromClampPos.events[Len(RestoredFromClampPos.events)]
                 = WordEvent(getCurrentWordInfo(RestoredFromClampPos))

(* A saved position in an existing chapter but past its paragraphs was     *)
(* clamped, and the notice is due.                                         *)
C37_Witness ==
    /\ clampOut.done
    /\ WellFormed(clampBook)
    /\ HasChapter(clampBook, clampPos.chapterIndex)
    /\ clampPos.paragraphIndex >= NumParagraphs(clampBook, clampPos.chapterIndex)
    /\ positionWasClamped(clampPos, clampOut.position)
    /\ RestoredFromClampPos.position = clampOut.position

(* C38: for every book with at least one chapter and every position p,     *)
(* clampPosition(book, clampPosition(book, p)) = clampPosition(book, p).   *)
C38_ClampIdempotent ==
    (clampOut.done /\ NumChapters(clampBook) > 0)
        => /\ ~clampOut.threw
           /\ clampPosition(clampBook, clampOut.position)
                 = [threw |-> FALSE, position |-> clampOut.position]

(* A position was changed by clamping and landed on a paragraph without    *)
(* words.                                                                  *)
C38_Witness ==
    /\ clampOut.done
    /\ ~clampOut.threw
    /\ clampOut.position # clampPos
    /\ HasParagraph(clampBook, clampOut.position.chapterIndex,
                    clampOut.position.paragraphIndex)
    /\ NumWords(clampBook, clampOut.position.chapterIndex,
                clampOut.position.paragraphIndex) = 0
    /\ clampPosition(clampBook, clampOut.position).position = clampOut.position

(* n clamped into [lo, hi]; an empty range hi < lo is taken as [lo, lo]. *)
ClampedInto(n, lo, hi) ==
    IF n < lo \/ hi < lo THEN lo ELSE IF n > hi THEN hi ELSE n

(* The chapters up to k that have at least one paragraph. *)
ChaptersWithParagraphs(b, k) ==
    {j \in 0 .. k : NumParagraphs(b, j) > 0}

(* C39: with k the saved chapterIndex clamped into [0, #chapters - 1], the *)
(* returned chapterIndex is the largest j <= k whose chapter has at least  *)
(* one paragraph, or 0 if there is none; the returned paragraphIndex is    *)
(* the saved one clamped into that chapter's range (an empty chapter taken *)
(* as [0,0]); the returned wordIndex is the saved one clamped into that    *)
(* paragraph's range, or 0 if the paragraph has no words or is missing.    *)
C39_ClampChapterSelection ==
    (clampOut.done /\ NumChapters(clampBook) > 0)
        => LET b == clampBook
               k == ClampedInto(clampPos.chapterIndex, 0, NumChapters(b) - 1)
               c == clampOut.position.chapterIndex
               p == clampOut.position.paragraphIndex
               w == clampOut.position.wordIndex
           IN  /\ ~clampOut.threw
               /\ c <= k
               /\ IF ChaptersWithParagraphs(b, k) = {} THEN c = 0
                  ELSE /\ c \in ChaptersWithParagraphs(b, k)
                       /\ \A j \in ChaptersWithParagraphs(b, k) : j <= c
               /\ p = ClampedInto(clampPos.paragraphIndex, 0, NumParagraphs(b, c) - 1)
               /\ IF HasParagraph(b, c, p) /\ NumWords(b, c, p) > 0
                  THEN w = ClampedInto(clampPos.wordIndex, 0, NumWords(b, c, p) - 1)
                  ELSE w = 0

(* The saved chapter had no paragraphs and clamping went back to an        *)
(* earlier chapter that has some.                                          *)
C39_Witness ==
    /\ clampOut.done
    /\ ~clampOut.threw
    /\ NumChapters(clampBook) = 2
    /\ clampPos.chapterIndex >= 1
    /\ NumParagraphs(clampBook, 1) = 0
    /\ NumParagraphs(clampBook, 0) > 0
    /\ clampOut.position.chapterIndex = 0

(***************************************************************************)
(* Uninterrupted playback.  A book whose chapters all have paragraphs and  *)
(* whose paragraphs all have words is loaded and a position, a speed and a *)
(* view are chosen; once play() has made the engine playing, no further   *)
(* command is issued and only the armed timers act, until the engine is    *)
(* paused again.  Browser timers that are armed and not cancelled do fire: *)
(* weak fairness of the timer callback.                                    *)
(***************************************************************************)
WellFormedBooks == {b \in Books : WellFormed(b)}

PlaybackNext ==
    \/ status # "playing" /\ \E b \in WellFormedBooks : LoadBook(b)
    \/ status # "playing" /\ \E pos \in PosArgs : SetPosition(pos)
    \/ status # "playing" /\ \E n \in WpmValues : SetWPM(n)
    \/ status # "playing" /\ \E m \in ViewModes : SetViewMode(m)
    \/ status # "playing" /\ book.loaded /\ Play
    \/ \E id \in 1 .. MaxTimers : TimerFires(id)

PlaybackSpec ==
    /\ Init
    /\ [][PlaybackNext]_vars
    /\ WF_vars(\E id \in 1 .. MaxTimers : TimerFires(id))

(* pos comes before q in document order. *)
ComesBefore(pos, q) ==
    \/ pos.chapterIndex < q.chapterIndex
    \/ /\ pos.chapterIndex = q.chapterIndex
       /\ \/ pos.paragraphIndex < q.paragraphIndex
          \/ /\ pos.paragraphIndex = q.paragraphIndex
             /\ pos.wordIndex < q.wordIndex

(* The number of words of b that come before pos. *)
WordsBefore(b, pos) ==
    Cardinality({q \in PosArgs : IsValid(b, q) /\ ComesBefore(q, pos)})

(* C35: for a well-formed book, once play() was called at a valid position *)
(* and no other command is issued, each continuation moves the position to *)
(* its immediate successor in document order (so every later word is       *)
(* visited exactly once) and keeps one continuation pending, until at the  *)
(* last word it pauses; under fairness of timer firing the engine          *)
(* eventually is paused at the last word with no continuation pending.     *)
C35_PlaybackRunsToEnd ==
    /\ [][(status = "playing" /\ lastOp' = "timer")
             => IF IsLastWord(book, position)
                THEN /\ position' = position
                     /\ status' = "paused"
                     /\ pending' = {}
                ELSE /\ IsValid(book, position')
                     /\ WordsBefore(book, position') = WordsBefore(book, position) + 1
                     /\ status' = "playing"
                     /\ Cardinality(pending') = 1]_vars
    /\ (status = "playing")
          ~> (status = "paused" /\ IsLastWord(book, position) /\ pending = {})

(* Playback that started on the first word of a two-chapter book has run   *)
(* to the last word and paused there.                                      *)
C35_Witness ==
    /\ lastOp = "timer"
    /\ WellFormed(book)
    /\ NumChapters(book) = 2
    /\ IsLastWord(book, position)
    /\ status = "paused"
    /\ pending = {}
    /\ timerId = NoTimer
    /\ events[1] = StatusEvent("paused")

(***************************************************************************)
(* Subscribers that call back into the engine.  setStatus and              *)
(* notifyWordChange invoke the registered callbacks synchronously, in the  *)
(* middle of the engine method that notifies, and a callback may call      *)
(* pause() and play().  The subscriber here detaches itself (the function  *)
(* onStatusChange / onWordChange returned) the first time it reacts, then  *)
(* makes the calls of its script.                                          *)
(***************************************************************************)
Scripts == {<<"pause", "play">>, <<"play">>}

Subscribers ==
    {[channel |-> "status", on |-> st, script |-> sc, attached |-> TRUE] :
        st \in {"playing", "paused"}, sc \in Scripts}
        \cup {[channel |-> "word", on |-> "", script |-> sc, attached |-> TRUE] :
                 sc \in Scripts}

ReentrantEng == [subscriber |-> subscriber] @@ Eng

RECURSIVE setStatusReentrant(_, _)
RECURSIVE callback(_, _)

pauseReentrant(s) ==
    LET s1 == IF s.timerId # NoTimer
              THEN [s EXCEPT !.pending = @ \ {s.timerId}, !.timerId = NoTimer]
              ELSE s
    IN  IF s1.status = "playing" THEN setStatusReentrant(s1, "paused") ELSE s1

scheduleNextReentrant(s) ==
    IF s.status # "playing" THEN s
    ELSE IF ~getCurrentWord(s) THEN pauseReentrant(s)
    ELSE LET id == FreshTimer(s)
         IN  [s EXCEPT !.timerId = id, !.pending = @ \cup {id}]

playReentrant(s) ==
    IF s.status # "ready" /\ s.status # "paused" THEN s
    ELSE scheduleNextReentrant(setStatusReentrant(s, "playing"))

(* The body of the callback: the engine calls of its script, in order. *)
callback(s, script) ==
    IF script = <<>> THEN s
    ELSE callback(IF Head(script) = "pause" THEN pauseReentrant(s)
                  ELSE playReentrant(s),
                  Tail(script))

(* The subscriber is in the listener set of the channel and acts on the    *)
(* value delivered.                                                        *)
Reacts(s, channel, value) ==
    /\ s.subscriber.attached
    /\ s.subscriber.channel = channel
    /\ channel = "status" => s.subscriber.on = value

forEachReentrant(s, channel, value) ==
    IF Reacts(s, channel, value)
    THEN callback([s EXCEPT !.subscriber.attached = FALSE], s.subscriber.script)
    ELSE s

setStatusReentrant(s, st) ==
    forEachReentrant(setStatus(s, st), "status", st)

notifyWordChangeReentrant(s) ==
    forEachReentrant(notifyWordChange(s), "word", "")

advanceReentrant(s) ==
    IF s.book.loaded /\ NothingAfter(s.book, s.position)
    THEN pauseReentrant(s)
    ELSE advance(s)

timerCallbackReentrant(s) ==
    scheduleNextReentrant(notifyWordChangeReentrant(advanceReentrant(s)))

loadBookReentrant(s, b) ==
    LET s1 == pauseReentrant(s)
        s2 == [s1 EXCEPT !.book = b, !.position = ZeroPos]
    IN  notifyWordChangeReentrant(setStatusReentrant(s2, "ready"))

ReentrantInit ==
    /\ EarlierInit
    /\ OrpIdle
    /\ ScheduleIdle
    /\ AppIdle
    /\ subscriber = NoSubscriber

ReentrantCall(op, s) ==
    /\ Becomes(s)
    /\ subscriber' = s.subscriber
    /\ lastOp' = op
    /\ pauseRun' = NoPauseRun
    /\ UNCHANGED <<clampVars, listenerVars, timingVars, orpVars, scheduleVars,
                   serverVars, appVars>>

(* One call arms at most two timers: one in the callback, one after it. *)
CanArmTwo(timers) == Cardinality(timers) + 2 <= MaxTimers

SubscribeReentrant(sub) ==
    /\ ~subscriber.attached
    /\ ReentrantCall("subscribe", [ReentrantEng EXCEPT !.subscriber = sub])

ReentrantLoadBook ==
    /\ CanArmTwo(pending)
    /\ ReentrantCall("loadBook", loadBookReentrant(ReentrantEng, AppBook))

ReentrantPlay ==
    /\ CanArmTwo(pending)
    /\ ReentrantCall("play", playReentrant(ReentrantEng))

ReentrantPause ==
    /\ CanArmTwo(pending)
    /\ ReentrantCall("pause", pauseReentrant(ReentrantEng))

ReentrantTimerFires(id) ==
    /\ id \in pending
    /\ CanArmTwo(pending \ {id})
    /\ ReentrantCall("timer",
                     timerCallbackReentrant([ReentrantEng EXCEPT !.pending = @ \ {id}]))

ReentrantNext ==
    \/ \E sub \in Subscribers : SubscribeReentrant(sub)
    \/ ReentrantLoadBook
    \/ ReentrantPlay
    \/ ReentrantPause
    \/ \E id \in 1 .. MaxTimers : ReentrantTimerFires(id)

ReentrantSpec == ReentrantInit /\ [][ReentrantNext]_vars

(* C33: also when subscriber callbacks call engine operations re-entrantly *)
(* during dispatch, no reachable state has two continuations pending, and  *)
(* no continuation is pending that pause() can no longer cancel (every     *)
(* pending timer is the one timerId holds).                                *)
C33_ReentrantAtMostOnePending ==
    /\ Cardinality(pending) <= 1
    /\ pending \subseteq {timerId}

====
